---------------------------- MODULE Spec2Model ----------------------------
(***************************************************************************)
(* A model of the deterministic simulation core of INVERSION-SIM:          *)
(*   - the run loop runVariant (src/src/core.ts),                          *)
(*   - the four variants (square clamp/reflect, mirror, sticky,            *)
(*     inversion-reflect) with their event detection and phase rules,      *)
(*   - the hash computeInversionStepFromStart,                             *)
(*   - the three Top-K stores (stress.ts, autorunner.ts, stress_fast).     *)
(*                                                                         *)
(* JavaScript objects are modelled as functions over their field names:    *)
(* an optional field that is absent is absent from the DOMAIN, and the     *)
(* object spread {...a, k: v} is the operator Spread.  Numbers are         *)
(* integers; the 32-bit words of the hash are pairs <<hi, lo>> of 16-bit   *)
(* halves so that every intermediate value keeps its width.                *)
(***************************************************************************)
EXTENDS Integers, Sequences, FiniteSets, TLC

VARIABLES
    variant,        \* the Variant passed to runVariant
    cfg,            \* the RunConfig passed to runVariant (or to a pure function)
    s,              \* runVariant: the current State `s`
    trajectory,     \* runVariant: trajectory[]
    events,         \* runVariant: events[]
    applied,        \* runVariant: the Set `applied` of kinds already fired
    inversionMask,  \* runVariant: the accumulated bit mask
    didInvert,      \* runVariant: the legacy flag
    i,              \* runVariant: the loop counter
    pc,             \* position of the component under check
    impl,           \* which Top-K store class is instantiated
    K,              \* the store's capacity
    items,          \* the store's items[]
    offered,        \* history: every entry passed to tryInsert, in order
    deleted,        \* the run directories removed from disk by a store
    args,           \* arguments of the pure function under check
    ret             \* value returned by the last call

vars == <<variant, cfg, s, trajectory, events, applied, inversionMask,
          didInvert, i, pc, impl, K, items, offered, deleted, args, ret>>

runVars   == <<variant, s, trajectory, events, applied, inversionMask, didInvert, i>>
storeVars == <<impl, K, items, offered, deleted>>

(***************************************************************************)
(* Bounds of the model.                                                    *)
(***************************************************************************)
MaxSize  == 2      \* the grid of the scheduled runs is MaxSize x MaxSize
MaxSteps == 3      \* cfg.steps ranges over 0..MaxSteps
MaxMark  == 2      \* schedule steps range over 1..MaxMark, inversionStep over 0..MaxMark
MaxSched == 2      \* an inversionSchedule has at most MaxSched entries
Phase0   == 1      \* cfg.phase0 of the scheduled runs
Multiplier == 2    \* cfg.multiplier of the scheduled runs
Mod      == 5      \* cfg.mod of the scheduled runs (0: an invalid configuration)
MaxK     == 2      \* a store's capacity K ranges over 1..MaxK
MaxScore == 2      \* scores range over 0..MaxScore
MaxOffers == 4     \* at most MaxOffers calls of tryInsert on a store
MaxPhase == 3      \* applyPhase is called with phase in -MaxPhase..MaxPhase
MaxMult  == 3      \* ... and multiplier in 0..MaxMult
MaxMod   == 4      \* ... and mod in 1..MaxMod
MaxHashSteps == 5  \* computeInversionStepFromStart is called with steps in -1..MaxHashSteps
MaxHashSize == 2   \* ... and sizeX, sizeY in 1..MaxHashSize
MaxGrid  == 3      \* stepOnce is called on grids of sizeX, sizeY in 1..MaxGrid
MaxVel   == 3      \* ... with vx, vy in -MaxVel..MaxVel
MaxWall  == 3      \* reflectWithRemainder is called with hi in 1..MaxWall
MaxSpeed == 7      \* ... and vel in -MaxSpeed..MaxSpeed
MaxFile  == 3      \* a persisted file holds at most MaxFile entries
MaxWorkers == 2    \* the job loop runs in MaxWorkers workers at once
MaxJobs  == 2      \* the jobs table holds 1..MaxJobs rows
MaxRuns  == 2      \* a job is simulated at most MaxRuns times

(***************************************************************************)
(* JavaScript values.                                                      *)
(***************************************************************************)
\* obj.k ?? d
Get(obj, k, d) == IF k \in DOMAIN obj THEN obj[k] ELSE d

\* { ...a, ...b }
Spread(a, b) ==
    [k \in (DOMAIN a) \cup (DOMAIN b) |-> IF k \in DOMAIN b THEN b[k] ELSE a[k]]

Abs(n) == IF n < 0 THEN -n ELSE n
Max(a, b) == IF a >= b THEN a ELSE b
Min(a, b) == IF a <= b THEN a ELSE b

\* JavaScript's a % b on integers: the remainder takes the sign of the dividend.
JsRem(a, b) == IF a >= 0 THEN a % Abs(b) ELSE -((-a) % Abs(b))

\* Math.round of the number h/2 (h is the value counted in halves): halves round up.
RoundHalves(h) == (h + 1) \div 2

\* mask | (1 << k)
BitOr(mask, k) == IF (mask \div (2 ^ k)) % 2 = 1 THEN mask ELSE mask + 2 ^ k

BitSet(mask, k) == (mask \div (2 ^ k)) % 2 = 1

(***************************************************************************)
(* square_clamp_reflect.ts                                                 *)
(***************************************************************************)
\* assertValidConfig returns normally.  Every number of the model is a finite
\* integer, so the Number.isFinite tests are decided by the type.
assertValidConfig(c) == c.sizeX > 0 /\ c.sizeY > 0 /\ c.mod > 0

\* a clamp-mode mirror that also turns the velocity when the move lands on a bound
clampReflect_FlipsOnBound(pos, vel, lo, hi) ==
    LET p0 == pos + vel
        p1 == IF p0 <= lo THEN lo ELSE p0
        v1 == IF p0 <= lo THEN -vel ELSE vel
        p2 == IF p1 >= hi THEN hi ELSE p1
        v2 == IF p1 >= hi THEN -v1 ELSE v1
    IN  [p |-> p2, v |-> v2]

\* a clamp-mode mirror that stops the particle at the wall
clampReflect_StopsAtWall(pos, vel, lo, hi) ==
    LET p0 == pos + vel
        p1 == IF p0 < lo THEN lo ELSE p0
        v1 == IF p0 < lo THEN 0 ELSE vel
        p2 == IF p1 > hi THEN hi ELSE p1
        v2 == IF p1 > hi THEN 0 ELSE v1
    IN  [p |-> p2, v |-> v2]

clampReflect(pos, vel, lo, hi) ==
    LET p0 == pos + vel
        p1 == IF p0 < lo THEN lo ELSE p0
        v1 == IF p0 < lo THEN -vel ELSE vel
        p2 == IF p1 > hi THEN hi ELSE p1
        v2 == IF p1 > hi THEN -v1 ELSE v1
    IN  [p |-> p2, v |-> v2]

\* a fold that always keeps the direction of vel
reflectWithRemainder_NoFlip(pos, vel, lo, hi) ==
    LET L == hi - lo
    IN  IF L <= 0 THEN [p |-> lo, v |-> -vel]
        ELSE LET period == 2 * L
                 m == JsRem(JsRem(pos - lo + vel, period) + period, period)
             IN  [p |-> lo + (IF m <= L THEN m ELSE period - m), v |-> vel]

reflectWithRemainder(pos, vel, lo, hi) ==
    LET L == hi - lo
    IN  IF L <= 0 THEN [p |-> lo, v |-> -vel]
        ELSE LET x0 == pos - lo
                 x1 == x0 + vel
                 period == 2 * L
                 m == JsRem(JsRem(x1, period) + period, period)
                 flipped == ~(m <= L)
                 pFold == IF m <= L THEN m ELSE period - m
             IN  [p |-> lo + pFold, v |-> IF flipped THEN -vel ELSE vel]

isOnEdgeX(x, c) == x = 0 \/ x = c.sizeX
isOnEdgeY(y, c) == y = 0 \/ y = c.sizeY
isCorner(x, y, c) == isOnEdgeX(x, c) /\ isOnEdgeY(y, c)

\* a classification that takes the anti-diagonal corners whatever the mode
cornerClass_AntiDiag(next, c, cornerMode) ==
    IF (next.x = 0 /\ next.y = c.sizeY) \/ (next.x = c.sizeX /\ next.y = 0)
    THEN "diag" ELSE "off"

cornerClass(next, c, cornerMode) ==
    LET x == next.x
        y == next.y
    IN  CASE cornerMode = "mainDiag" ->
               IF (x = 0 /\ y = 0) \/ (x = c.sizeX /\ y = c.sizeY) THEN "diag" ELSE "off"
          [] cornerMode = "antiDiag" ->
               IF (x = 0 /\ y = c.sizeY) \/ (x = c.sizeX /\ y = 0) THEN "diag" ELSE "off"
          [] cornerMode = "parity" ->
               IF JsRem(x + y, 2) = 0 THEN "diag" ELSE "off"
          [] cornerMode = "velocity" ->
               IF next.vx * next.vy >= 0 THEN "diag" ELSE "off"
          [] OTHER -> "off"

manhattanDistToNearestCorner(x, y, c) ==
    LET d(cx, cy) == Abs(x - cx) + Abs(y - cy)
    IN  Min(Min(d(0, 0), d(0, c.sizeY)), Min(d(c.sizeX, 0), d(c.sizeX, c.sizeY)))

SquareClampReflect_stepOnce(st, c) ==
    LET mode == Get(c, "reflectMode", "clamp")
        xr == IF mode = "reflect" THEN reflectWithRemainder(st.x, st.vx, 0, c.sizeX)
                                  ELSE clampReflect(st.x, st.vx, 0, c.sizeX)
        yr == IF mode = "reflect" THEN reflectWithRemainder(st.y, st.vy, 0, c.sizeY)
                                  ELSE clampReflect(st.y, st.vy, 0, c.sizeY)
    IN  [step |-> st.step + 1, x |-> xr.p, y |-> yr.p,
         vx |-> xr.v, vy |-> yr.v, phase |-> st.phase]

\* a detection that logs an edge hit on every tick spent on the edge
SquareClampReflect_detectEvents_EveryTickOnEdge(prev, next, c) ==
    LET cornerOff  == Get(c, "cornerOffEventType", "corner.off")
        cornerDiag == Get(c, "cornerDiagEventType", "corner.diag")
        nextOnX == isOnEdgeX(next.x, c)
        nextOnY == isOnEdgeY(next.y, c)
        edge == IF Get(c, "emitEdgeEvents", FALSE)
                THEN (IF nextOnX THEN <<[eventType |-> "edge.hit.x"]>> ELSE <<>>)
                     \o (IF nextOnY THEN <<[eventType |-> "edge.hit.y"]>> ELSE <<>>)
                ELSE <<>>
        dist  == Max(0, Get(c, "nearCornerDist", 1))
        dPrev == manhattanDistToNearestCorner(prev.x, prev.y, c)
        dNext == manhattanDistToNearestCorner(next.x, next.y, c)
        near == IF Get(c, "emitNearCornerEvents", FALSE)
                THEN (IF dPrev > dist /\ dNext <= dist
                      THEN <<[eventType |-> "near.corner.enter"]>> ELSE <<>>)
                     \o (IF dPrev <= dist /\ dNext > dist
                         THEN <<[eventType |-> "near.corner.exit"]>> ELSE <<>>)
                ELSE <<>>
        out == edge \o near
        mode == Get(c, "cornerMode", "mainDiag")
        cls == cornerClass(next, c, mode)
    IN  IF ~isCorner(next.x, next.y, c) THEN out
        ELSE out \o <<[eventType |-> IF cls = "diag" THEN cornerDiag ELSE cornerOff]>>

SquareClampReflect_detectEvents(prev, next, c) ==
    LET cornerOff  == Get(c, "cornerOffEventType", "corner.off")
        cornerDiag == Get(c, "cornerDiagEventType", "corner.diag")
        prevOnX == isOnEdgeX(prev.x, c)
        nextOnX == isOnEdgeX(next.x, c)
        prevOnY == isOnEdgeY(prev.y, c)
        nextOnY == isOnEdgeY(next.y, c)
        edge == IF Get(c, "emitEdgeEvents", FALSE)
                THEN (IF ~prevOnX /\ nextOnX THEN <<[eventType |-> "edge.hit.x"]>> ELSE <<>>)
                     \o (IF ~prevOnY /\ nextOnY THEN <<[eventType |-> "edge.hit.y"]>> ELSE <<>>)
                ELSE <<>>
        dist  == Max(0, Get(c, "nearCornerDist", 1))
        dPrev == manhattanDistToNearestCorner(prev.x, prev.y, c)
        dNext == manhattanDistToNearestCorner(next.x, next.y, c)
        near == IF Get(c, "emitNearCornerEvents", FALSE)
                THEN (IF dPrev > dist /\ dNext <= dist
                      THEN <<[eventType |-> "near.corner.enter"]>> ELSE <<>>)
                     \o (IF dPrev <= dist /\ dNext > dist
                         THEN <<[eventType |-> "near.corner.exit"]>> ELSE <<>>)
                ELSE <<>>
        out == edge \o near
        mode == Get(c, "cornerMode", "mainDiag")
        cls == cornerClass(next, c, mode)
    IN  IF ~isCorner(next.x, next.y, c) THEN out
        ELSE out \o <<[eventType |-> IF cls = "diag" THEN cornerDiag ELSE cornerOff]>>

\* phase rules whose diagonal rule forgets the reduction modulo mod
SquareClampReflect_applyPhase_NoReduce(phase, eventType, c) ==
    IF eventType = Get(c, "cornerOffEventType", "corner.off")
    THEN JsRem(phase * c.multiplier, c.mod)
    ELSE IF eventType = Get(c, "cornerDiagEventType", "corner.diag") THEN phase + 1
    ELSE phase

\* phase rules that count the edge hits
SquareClampReflect_applyPhase_CountsEdges(phase, eventType, c) ==
    IF eventType = Get(c, "cornerOffEventType", "corner.off")
    THEN JsRem(phase * c.multiplier, c.mod)
    ELSE IF eventType = Get(c, "cornerDiagEventType", "corner.diag")
    THEN JsRem(phase + 1, c.mod)
    ELSE IF eventType \in {"edge.hit.x", "edge.hit.y"} THEN phase + 1
    ELSE phase

SquareClampReflect_applyPhase(phase, eventType, c) ==
    LET cornerOff  == Get(c, "cornerOffEventType", "corner.off")
        cornerDiag == Get(c, "cornerDiagEventType", "corner.diag")
    IN  IF eventType = cornerOff THEN JsRem(phase * c.multiplier, c.mod)
        ELSE IF eventType = cornerDiag THEN JsRem(phase + 1, c.mod)
        ELSE phase

(***************************************************************************)
(* 32-bit words, as pairs <<hi, lo>> of 16-bit halves.                     *)
(***************************************************************************)
Half == 65536

\* ToUint32(n): the low 32 bits of the integer n (two's complement).
ToWord(n) == <<(n \div Half) % Half, n % Half>>

\* The word read as a signed 32-bit integer: w | 0.
ToInt32(w) == IF w[1] >= Half \div 2 THEN (w[1] - Half) * Half + w[2]
              ELSE w[1] * Half + w[2]

RECURSIVE XorBits(_, _, _)
XorBits(a, b, n) ==
    IF n = 0 THEN 0
    ELSE (((a % 2) + (b % 2)) % 2) + 2 * XorBits(a \div 2, b \div 2, n - 1)

\* the exclusive or of two 4-bit digits, tabulated
XorDigit == [a \in 0..15 |-> [b \in 0..15 |-> XorBits(a, b, 4)]]

\* the exclusive or of two 16-bit halves, digit by digit
Xor16(a, b) ==
    XorDigit[a % 16][b % 16]
    + 16 * XorDigit[(a \div 16) % 16][(b \div 16) % 16]
    + 256 * XorDigit[(a \div 256) % 16][(b \div 256) % 16]
    + 4096 * XorDigit[a \div 4096][b \div 4096]

\* a ^ b
Xor32(a, b) == <<Xor16(a[1], b[1]), Xor16(a[2], b[2])>>

\* w >>> 16
Shr16(w) == <<0, w[1]>>

\* Math.imul(a, b): the low 32 bits of the product.
Imul(a, b) ==
    LET low == a[2] * b[2]
    IN  <<((a[1] * b[2]) + (a[2] * b[1]) + (low \div Half)) % Half, low % Half>>

\* (w >>> 0) % n, for 0 < n < 2^15
UMod(w, n) == (((w[1] % n) * (Half % n)) + w[2]) % n

(***************************************************************************)
(* square_inversion_reflect.ts                                             *)
(***************************************************************************)
\* 2166136261 = 0x811C9DC5
FnvOffsetBasis == <<33052, 40389>>
FnvPrime == 16777619

\* const mix = (n) => { const x = (n | 0) ^ (n >>> 16); h ^= x; h = Math.imul(h, 16777619); h |= 0 }
mix(h, n) == Imul(Xor32(h, Xor32(ToWord(n), Shr16(ToWord(n)))), ToWord(FnvPrime))

\* the nine mix calls: the value of h, a 32-bit word, when they are done
configHash(c) ==
    mix(mix(mix(mix(mix(mix(mix(mix(mix(FnvOffsetBasis,
        c.sizeX), c.sizeY), c.x0), c.y0), c.vx0), c.vy0), c.phase0), c.multiplier), c.mod)

\* a step selection without the remap of 0
stepFromHash_NoRemap(u) == u

\* `const u = (h >>> 0) % steps; if (u === 0) return 1; return u`
stepFromHash(u) == IF u = 0 THEN 1 ELSE u

\* the rest of the function, steps being Math.max(1, cfg.steps | 0)
stepInRun(c, steps) ==
    IF steps <= 1 THEN 0
    ELSE stepFromHash(UMod(configHash(c), steps))

computeInversionStepFromStart(c) == stepInRun(c, Max(1, ToInt32(ToWord(c.steps))))

cfgWithReflectMode(c, mode) == Spread(c, [reflectMode |-> mode])

\* a swap of modes one tick late
SquareInversionReflect_stepOnce_SwapsLate(st, c) ==
    LET inversionStep == computeInversionStepFromStart(c)
        mode == IF st.step <= inversionStep THEN "clamp" ELSE "reflect"
    IN  SquareClampReflect_stepOnce(st, cfgWithReflectMode(c, mode))

SquareInversionReflect_stepOnce(st, c) ==
    LET inversionStep == computeInversionStepFromStart(c)
        mode == IF st.step < inversionStep THEN "clamp" ELSE "reflect"
    IN  SquareClampReflect_stepOnce(st, cfgWithReflectMode(c, mode))

SquareInversionReflect_detectEvents(prev, next, c) ==
    LET inversionStep == computeInversionStepFromStart(c)
        base == SquareClampReflect_detectEvents(prev, next, cfgWithReflectMode(c, "clamp"))
        crossed == prev.step < inversionStep /\ next.step >= inversionStep
    IN  IF ~crossed THEN base ELSE base \o <<[eventType |-> "inversion.swap"]>>

SquareInversionReflect_applyPhase(phase, eventType, c) ==
    IF eventType = "inversion.swap" THEN phase
    ELSE SquareClampReflect_applyPhase(phase, eventType, c)

(***************************************************************************)
(* mirror_inversion.ts                                                     *)
(***************************************************************************)
\* Math.floor(cfg.sizeX / 2)
mirrorXOf(c) == c.sizeX \div 2

mirrorCrossing(prev, next, c) ==
    \/ prev.x < mirrorXOf(c) /\ next.x >= mirrorXOf(c)
    \/ prev.x > mirrorXOf(c) /\ next.x <= mirrorXOf(c)

MirrorInversion_stepOnce(st, c) ==
    LET mirrorX == mirrorXOf(c)
        next == SquareClampReflect_stepOnce(st, c)
    IN  IF mirrorCrossing(st, next, c)
        THEN Spread(next, [vx |-> -next.vx, x |-> mirrorX - (next.x - mirrorX)])
        ELSE next

MirrorInversion_detectEvents(prev, next, c) ==
    LET base == SquareClampReflect_detectEvents(prev, next, c)
    IN  IF mirrorCrossing(prev, next, c)
        THEN base \o <<[eventType |-> "mirror.cross"]>>
        ELSE base

MirrorInversion_applyPhase(phase, eventType, c) ==
    IF eventType = "mirror.cross" THEN -phase
    ELSE SquareClampReflect_applyPhase(phase, eventType, c)

(***************************************************************************)
(* square_sticky_reflect.ts                                                *)
(***************************************************************************)
sign(v) == IF v > 0 THEN 1 ELSE IF v < 0 THEN -1 ELSE 0

SquareStickyReflect_stepOnce(st, c) ==
    IF Get(st, "stuck", FALSE)
    THEN Spread(st, [x |-> st.x + sign(st.vx), y |-> st.y + sign(st.vy),
                     vx |-> -st.vx, vy |-> -st.vy,
                     step |-> st.step + 1, phase |-> st.phase, stuck |-> FALSE])
    ELSE LET x0 == st.x + st.vx
             y0 == st.y + st.vy
             hitX == x0 < 0 \/ x0 > c.sizeX
             hitY == y0 < 0 \/ y0 > c.sizeY
         IN  Spread(st, [x  |-> IF hitX THEN (IF x0 < 0 THEN 0 ELSE c.sizeX) ELSE x0,
                         y  |-> IF hitY THEN (IF y0 < 0 THEN 0 ELSE c.sizeY) ELSE y0,
                         vx |-> IF hitX THEN 0 ELSE st.vx,
                         vy |-> IF hitY THEN 0 ELSE st.vy,
                         step |-> st.step + 1, phase |-> st.phase,
                         stuck |-> hitX \/ hitY])

SquareStickyReflect_detectEvents(prev, next, c) ==
    (IF Get(next, "stuck", FALSE) /\ ~Get(prev, "stuck", FALSE)
     THEN <<[eventType |-> "sticky.enter"]>> ELSE <<>>)
    \o (IF ~Get(next, "stuck", FALSE) /\ Get(prev, "stuck", FALSE)
        THEN <<[eventType |-> "sticky.exit"]>> ELSE <<>>)

SquareStickyReflect_applyPhase(phase, eventType, c) == phase

(***************************************************************************)
(* The Variant record of functions (types.ts): dispatch on the variant.    *)
(***************************************************************************)
Variants == {"SquareClampReflect", "MirrorInversion", "SquareStickyReflect",
             "SquareInversionReflect"}

\* stepOnce throws (assertValidConfig) instead of returning
stepOnceThrows(v, c) == v # "SquareStickyReflect" /\ ~assertValidConfig(c)

stepOnce(v, st, c) ==
    CASE v = "SquareClampReflect"     -> SquareClampReflect_stepOnce(st, c)
      [] v = "MirrorInversion"        -> MirrorInversion_stepOnce(st, c)
      [] v = "SquareStickyReflect"    -> SquareStickyReflect_stepOnce(st, c)
      [] v = "SquareInversionReflect" -> SquareInversionReflect_stepOnce(st, c)

detectEvents(v, prev, next, c) ==
    CASE v = "SquareClampReflect"     -> SquareClampReflect_detectEvents(prev, next, c)
      [] v = "MirrorInversion"        -> MirrorInversion_detectEvents(prev, next, c)
      [] v = "SquareStickyReflect"    -> SquareStickyReflect_detectEvents(prev, next, c)
      [] v = "SquareInversionReflect" -> SquareInversionReflect_detectEvents(prev, next, c)

applyPhase(v, phase, eventType, c) ==
    CASE v = "SquareClampReflect"     -> SquareClampReflect_applyPhase(phase, eventType, c)
      [] v = "MirrorInversion"        -> MirrorInversion_applyPhase(phase, eventType, c)
      [] v = "SquareStickyReflect"    -> SquareStickyReflect_applyPhase(phase, eventType, c)
      [] v = "SquareInversionReflect" -> SquareInversionReflect_applyPhase(phase, eventType, c)

(***************************************************************************)
(* core.ts: runVariant                                                     *)
(***************************************************************************)
Kinds == {"GEOM", "SPHERE", "OBSERVER", "CAUSAL"}

\* the bit 1 << k that a kind sets in inversionMask
KindBit(kind) ==
    CASE kind = "GEOM" -> 0
      [] kind = "SPHERE" -> 1
      [] kind = "OBSERVER" -> 2
      [] kind = "CAUSAL" -> 3

\* `INVERT_${m.kind}`
InvertEventType(kind) ==
    CASE kind = "GEOM" -> "INVERT_GEOM"
      [] kind = "SPHERE" -> "INVERT_SPHERE"
      [] kind = "OBSERVER" -> "INVERT_OBSERVER"
      [] kind = "CAUSAL" -> "INVERT_CAUSAL"

\* e.eventType.startsWith("corner.")
startsWithCorner(eventType) == eventType \in {"corner.off", "corner.diag"}

\* a GEOM that negates the velocity and forgets the teleport
applyKind_GeomKeepsPosition(next, kind, c) ==
    CASE kind = "GEOM" -> Spread(next, [vx |-> -next.vx, vy |-> -next.vy])
      [] kind = "SPHERE" ->
           Spread(next, [x |-> RoundHalves(2 * (c.sizeX - 1) - 2 * next.x),
                         y |-> RoundHalves(2 * (c.sizeY - 1) - 2 * next.y)])
      [] kind = "OBSERVER" -> Spread(next, [phase |-> -next.phase])
      [] kind = "CAUSAL" -> next

\* a SPHERE that reflects through (sizeX / 2, sizeY / 2)
applyKind_SphereCentreOff(next, kind, c) ==
    CASE kind = "GEOM" ->
           Spread(next, [vx |-> -next.vx, vy |-> -next.vy, x |-> c.x0, y |-> c.y0])
      [] kind = "SPHERE" -> Spread(next, [x |-> c.sizeX - next.x, y |-> c.sizeY - next.y])
      [] kind = "OBSERVER" -> Spread(next, [phase |-> -next.phase])
      [] kind = "CAUSAL" -> next

\* an OBSERVER that reduces the negated phase modulo mod
applyKind_ObserverReduced(next, kind, c) ==
    CASE kind = "GEOM" ->
           Spread(next, [vx |-> -next.vx, vy |-> -next.vy, x |-> c.x0, y |-> c.y0])
      [] kind = "SPHERE" ->
           Spread(next, [x |-> RoundHalves(2 * (c.sizeX - 1) - 2 * next.x),
                         y |-> RoundHalves(2 * (c.sizeY - 1) - 2 * next.y)])
      [] kind = "OBSERVER" -> Spread(next, [phase |-> (-next.phase) % c.mod])
      [] kind = "CAUSAL" -> next

\* the effect of a firing entry on `next`, by kind
applyKind(next, kind, c) ==
    CASE kind = "GEOM" ->
           Spread(next, [vx |-> -next.vx, vy |-> -next.vy, x |-> c.x0, y |-> c.y0])
      [] kind = "SPHERE" ->
           \* cx = (sizeX - 1) / 2, so 2 * cx - next.x counts 2 * (sizeX - 1 - next.x) halves
           Spread(next, [x |-> RoundHalves(2 * (c.sizeX - 1) - 2 * next.x),
                         y |-> RoundHalves(2 * (c.sizeY - 1) - 2 * next.y)])
      [] kind = "OBSERVER" ->
           Spread(next, [phase |-> -next.phase])
      [] kind = "CAUSAL" -> next

\* a schedule loop keyed on the loop index i instead of next.step
markFires_AtLoopIndex(m, next, appliedSet) ==
    next.step - 1 = m.step /\ m.kind \notin appliedSet

\* a schedule loop that does not consult `applied`
markFires_IgnoresApplied(m, next, appliedSet) == next.step = m.step

\* the guard of the schedule loop's body
markFires(m, next, appliedSet) == next.step = m.step /\ m.kind \notin appliedSet

\* a marker event that carries the position and velocity before the effect
invertEvent_StateBefore(kind, before, next) ==
    [step |-> next.step, eventType |-> InvertEventType(kind),
     phaseBefore |-> before.phase, phaseAfter |-> next.phase,
     x |-> before.x, y |-> before.y, vx |-> before.vx, vy |-> before.vy,
     inversionKind |-> kind]

\* a marker event that reports the phase before the effect as the phase after it
invertEvent_PhaseBeforeTwice(kind, before, next) ==
    [step |-> next.step, eventType |-> InvertEventType(kind),
     phaseBefore |-> before.phase, phaseAfter |-> before.phase,
     x |-> next.x, y |-> next.y, vx |-> next.vx, vy |-> next.vy,
     inversionKind |-> kind]

\* the marker event pushed for a firing entry
invertEvent(kind, before, next) ==
    [step |-> next.step, eventType |-> InvertEventType(kind),
     phaseBefore |-> before.phase, phaseAfter |-> next.phase,
     x |-> next.x, y |-> next.y, vx |-> next.vx, vy |-> next.vy,
     inversionKind |-> kind]

\* a firing that forgets `applied.add(m.kind)`
fireEntry_ForgetsApplied(m, st, c, mask) ==
    [next    |-> Spread(applyKind(st.next, m.kind, c),
                        [inverted |-> TRUE, inversionMask |-> mask,
                         inversionKind |-> m.kind]),
     applied |-> st.applied,
     mask    |-> mask,
     didInvert |-> st.didInvert,
     events  |-> Append(st.events,
                   invertEvent(m.kind, st.next, applyKind(st.next, m.kind, c)))]

\* the body of `if (next.step === m.step && !applied.has(m.kind))`, mask being the
\* updated inversionMask; st = [next, applied, mask, didInvert, events]
fireEntry(m, st, c, mask) ==
    [next    |-> Spread(applyKind(st.next, m.kind, c),
                        [inverted |-> TRUE, inversionMask |-> mask,
                         inversionKind |-> m.kind]),
     applied |-> st.applied \cup {m.kind},
     mask    |-> mask,
     didInvert |-> st.didInvert,
     events  |-> Append(st.events,
                   invertEvent(m.kind, st.next, applyKind(st.next, m.kind, c)))]

\* one iteration of `for (const m of schedule)`
scheduleEntry(m, st, c) ==
    IF markFires(m, st.next, st.applied)
    THEN fireEntry(m, st, c, BitOr(st.mask, KindBit(m.kind)))
    ELSE st

RECURSIVE scheduleLoop(_, _, _, _)
scheduleLoop(schedule, k, st, c) ==
    IF k > Len(schedule) THEN st
    ELSE scheduleLoop(schedule, k + 1, scheduleEntry(schedule[k], st, c), c)

\* a legacy inversion keyed on the loop index i instead of next.step
legacyFires_LoopIndex(st, c) ==
    ~st.didInvert /\ "inversionStep" \in DOMAIN c /\ st.next.step - 1 = c.inversionStep

\* the guard of the legacy single inversion
legacyFires(st, c) ==
    ~st.didInvert /\ "inversionStep" \in DOMAIN c /\ st.next.step = c.inversionStep

\* a legacy inversion that negates vx only
legacyInversion_OneAxis(st, c) ==
    IF legacyFires(st, c)
    THEN [next |-> Spread(st.next, [vx |-> -st.next.vx, phase |-> -st.next.phase]),
          applied |-> st.applied,
          mask |-> st.mask,
          didInvert |-> TRUE,
          events |-> Append(st.events,
                       [step |-> st.next.step, eventType |-> "INVERT",
                        phaseBefore |-> st.next.phase, phaseAfter |-> -st.next.phase,
                        x |-> st.next.x, y |-> st.next.y,
                        vx |-> -st.next.vx, vy |-> st.next.vy])]
    ELSE st

\* the legacy single inversion
legacyInversion(st, c) ==
    IF legacyFires(st, c)
    THEN [next |-> Spread(st.next, [vx |-> -st.next.vx, vy |-> -st.next.vy,
                                    phase |-> -st.next.phase]),
          applied |-> st.applied,
          mask |-> st.mask,
          didInvert |-> TRUE,
          events |-> Append(st.events,
                       [step |-> st.next.step, eventType |-> "INVERT",
                        phaseBefore |-> st.next.phase, phaseAfter |-> -st.next.phase,
                        x |-> st.next.x, y |-> st.next.y,
                        vx |-> -st.next.vx, vy |-> -st.next.vy])]
    ELSE st

\* inversion blocks where the legacy step is not guarded by `!schedule`
inversions_LegacyUnguarded(st, c) ==
    legacyInversion(IF "inversionSchedule" \in DOMAIN c
                    THEN scheduleLoop(c.inversionSchedule, 1, st, c)
                    ELSE st, c)

\* the two inversion blocks of a tick: the schedule if there is one, else the legacy step
inversions(st, c) ==
    IF "inversionSchedule" \in DOMAIN c
    THEN scheduleLoop(c.inversionSchedule, 1, st, c)
    ELSE legacyInversion(st, c)

\* the event pushed for a detected label
detectedEvent(next, eventType, before, after) ==
    [step |-> next.step, eventType |-> eventType,
     phaseBefore |-> before, phaseAfter |-> after,
     x |-> next.x, y |-> next.y, vx |-> next.vx, vy |-> next.vy]

\* a phase loop that puts the event at the front of the log
phaseStep_Unshift(st, next, eventType, after) ==
    [phase |-> after,
     events |-> <<detectedEvent(next, eventType, st.phase, after)>> \o st.events]

\* a phase loop that logs the event and does not carry its phase forward
phaseStep_KeepsPhase(st, next, eventType, after) ==
    [phase |-> st.phase,
     events |-> Append(st.events, detectedEvent(next, eventType, st.phase, after))]

\* the body of `for (const ev of detected)`, after being applyPhase's result
phaseStep(st, next, eventType, after) ==
    [phase |-> after, events |-> Append(st.events, detectedEvent(next, eventType, st.phase, after))]

\* `for (const ev of detected)`; st = [phase, events]
RECURSIVE detectedLoop(_, _, _, _, _, _)
detectedLoop(v, detected, k, st, next, c) ==
    IF k > Len(detected) THEN st
    ELSE detectedLoop(v, detected, k + 1,
             phaseStep(st, next, detected[k].eventType,
                       applyPhase(v, st.phase, detected[k].eventType, c)),
             next, c)

\* the entry pushed to trajectory for state st
trajectoryEntry(st, isCornerTick, didInv) ==
    [step |-> st.step, x |-> st.x, y |-> st.y, vx |-> st.vx, vy |-> st.vy,
     phase |-> st.phase, isCorner |-> isCornerTick,
     inverted |-> Get(st, "inverted", didInv),
     inversionMask |-> Get(st, "inversionMask", 0)]

\* detected.some(e => e.eventType.startsWith("corner."))
someCorner(detected) ==
    \E k \in 1..Len(detected) : startsWithCorner(detected[k].eventType)

\* the end of a tick: s = { ...next, phase } and the trajectory entry
endOfTick(inv, detected, ph, sNew, proposed) ==
    [s |-> sNew,
     applied |-> inv.applied,
     inversionMask |-> inv.mask,
     didInvert |-> inv.didInvert,
     events |-> ph.events,
     pushed |-> trajectoryEntry(sNew, someCorner(detected), inv.didInvert),
     proposed |-> proposed,
     next |-> inv.next,
     detected |-> detected]

\* the detected events of a tick, applied in order
phases(v, c, inv, detected, ph, proposed) ==
    endOfTick(inv, detected, ph, Spread(inv.next, [phase |-> ph.phase]), proposed)

detection(v, c, inv, detected, proposed) ==
    phases(v, c, inv, detected,
           detectedLoop(v, detected, 1, [phase |-> inv.next.phase, events |-> inv.events],
                        inv.next, c),
           proposed)

afterInversions(v, c, st0, inv, proposed) ==
    detection(v, c, inv, detectEvents(v, st0, inv.next, c), proposed)

afterStepOnce(v, c, st0, appliedSet, mask, didInv, evs, proposed) ==
    afterInversions(v, c, st0,
        inversions([next |-> proposed, applied |-> appliedSet, mask |-> mask,
                    didInvert |-> didInv, events |-> evs], c),
        proposed)

\* One iteration of the loop `for (let i = 0; i < cfg.steps; i++)`, as the record
\* of everything it assigns (and of its intermediate values: the state proposed by
\* stepOnce, `next` after the inversions, the detected labels).
loopBody(v, c, st0, appliedSet, mask, didInv, evs) ==
    afterStepOnce(v, c, st0, appliedSet, mask, didInv, evs, stepOnce(v, st0, c))

\* a run that forgets the tick-0 entry
trajectoryStart_Empty(c) == <<>>

\* `const trajectory = [{ step: 0, ... }]`
trajectoryStart(c) ==
    <<[step |-> 0, x |-> c.x0, y |-> c.y0, vx |-> c.vx0, vy |-> c.vy0,
       phase |-> c.phase0, isCorner |-> FALSE, inverted |-> FALSE,
       inversionMask |-> 0]>>

\* runVariant up to the loop: the state before the first tick
InitRun(v, c) ==
    /\ variant = v
    /\ cfg = c
    /\ s = [step |-> 0, x |-> c.x0, y |-> c.y0, vx |-> c.vx0, vy |-> c.vy0,
            phase |-> c.phase0]
    /\ trajectory = trajectoryStart(c)
    /\ events = <<>>
    /\ applied = {}
    /\ inversionMask = 0
    /\ didInvert = FALSE
    /\ i = 0
    /\ pc = "loop"

\* the assignments of one tick, r being the loop body's result
assignTick(r) ==
    /\ s' = r.s
    /\ applied' = r.applied
    /\ inversionMask' = r.inversionMask
    /\ didInvert' = r.didInvert
    /\ events' = r.events
    /\ trajectory' = Append(trajectory, r.pushed)

\* a tick of the loop whose stepOnce returns
Tick ==
    /\ pc = "loop"
    /\ i < cfg.steps
    /\ ~stepOnceThrows(variant, cfg)
    /\ assignTick(loopBody(variant, cfg, s, applied, inversionMask, didInvert, events))
    /\ i' = i + 1
    /\ UNCHANGED <<variant, cfg, pc, storeVars, args, ret>>

\* a tick whose stepOnce throws: the error leaves runVariant
TickThrows ==
    /\ pc = "loop"
    /\ i < cfg.steps
    /\ stepOnceThrows(variant, cfg)
    /\ pc' = "threw"
    /\ UNCHANGED <<runVars, cfg, storeVars, args, ret>>

\* return { trajectory, events }
Return ==
    /\ pc = "loop"
    /\ ~(i < cfg.steps)
    /\ pc' = "returned"
    /\ ret' = [trajectory |-> trajectory, events |-> events]
    /\ UNCHANGED <<runVars, cfg, storeVars, args>>

(***************************************************************************)
(* The runs checked: every variant, every schedule of at most MaxSched     *)
(* entries (or a legacy inversionStep, or neither), on a small grid.       *)
(***************************************************************************)
Marks == [step : 1..MaxMark, kind : Kinds]

Schedules == UNION {[1..n -> Marks] : n \in 0..MaxSched}

\* the schedules of at most one entry (the empty array included)
ShortSchedules == UNION {[1..n -> Marks] : n \in 0..1}

Geometries ==
    [sizeX : {MaxSize}, sizeY : {MaxSize}, x0 : {1}, y0 : {1}, vx0 : {1}, vy0 : {-1, 1},
     phase0 : {Phase0}, steps : 0..MaxSteps, multiplier : {Multiplier}, mod : {Mod}]

\* runs fast enough to hit a wall at every tick
FastGeometries ==
    {Spread(g, [vx0 |-> MaxSize, vy0 |-> MaxSize]) : g \in {h \in Geometries : h.vy0 = 1}}

\* the instrumentation options of square_clamp_reflect.ts, switched on
Instrumentations ==
    {[emitEdgeEvents |-> TRUE], [emitNearCornerEvents |-> TRUE],
     [emitEdgeEvents |-> TRUE, emitNearCornerEvents |-> TRUE]}

\* runs with instrumentation: plain, fast, or with a legacy inversion at tick 1
Instrumented ==
    {Spread(g, o) : g \in Geometries \cup FastGeometries
                          \cup {Spread(h, [inversionStep |-> 1]) : h \in Geometries},
                    o \in Instrumentations}

\* schedules with an entry at step 0, alone or before an entry of its kind at step 1
ZeroSchedules ==
    {<<[step |-> 0, kind |-> k]>> : k \in Kinds}
    \cup {<<[step |-> 0, kind |-> k], [step |-> 1, kind |-> k]>> : k \in Kinds}

RunConfigs ==
    Geometries
    \cup FastGeometries
    \cup Instrumented
    \cup {Spread(g, [mod |-> 0]) : g \in {h \in Geometries : h.steps > 0}}
    \cup {Spread(g, [sizeX |-> 0]) : g \in {h \in Geometries : h.steps > 0}}
    \cup {Spread(g, [reflectMode |-> "reflect"]) : g \in Geometries}
    \cup {Spread(g, [inversionStep |-> n]) : g \in Geometries, n \in 0..MaxMark}
    \cup {Spread(g, [inversionSchedule |-> sch]) : g \in Geometries, sch \in Schedules}
    \cup {Spread(g, [inversionSchedule |-> sch]) : g \in Geometries, sch \in ZeroSchedules}
    \cup {Spread(g, [inversionStep |-> n, inversionSchedule |-> sch]) :
               g \in Geometries, n \in 1..MaxMark, sch \in ShortSchedules}

\* the store and the pure-function variables, unused by a run
Idle ==
    /\ impl = "none"
    /\ K = 0
    /\ items = <<>>
    /\ offered = <<>>
    /\ deleted = {}
    /\ args = <<>>
    /\ ret = <<>>

\* the run variables, unused by the stores and the pure functions
NoRun ==
    /\ variant = "none"
    /\ s = <<>>
    /\ trajectory = <<>>
    /\ events = <<>>
    /\ applied = {}
    /\ inversionMask = 0
    /\ didInvert = FALSE
    /\ i = 0

Init ==
    /\ \E v \in Variants, c \in RunConfigs : InitRun(v, c)
    /\ Idle

Next == Tick \/ TickThrows \/ Return

Spec == Init /\ [][Next]_vars

(***************************************************************************)
(* The Top-K stores: TopKStore (stress.ts), TopKAnomalyStore               *)
(* (autorunner.ts) and TopKStore with a comparator (stress_fast,           *)
(* unnamed/part_011).  Each tryInsert is an operator from the store's      *)
(* fields and the entry to the new fields and the value returned.          *)
(***************************************************************************)
\* a scan that looks for the highest score
RECURSIVE TopKStore_worst_Highest(_, _, _)
TopKStore_worst_Highest(its, j, worst) ==
    IF j > Len(its) THEN worst
    ELSE TopKStore_worst_Highest(its, j + 1,
             IF its[j].score > its[worst].score THEN j ELSE worst)

\* a scan that settles on the last of the entries sharing the lowest score
RECURSIVE TopKStore_worst_LastMinimum(_, _, _)
TopKStore_worst_LastMinimum(its, j, worst) ==
    IF j > Len(its) THEN worst
    ELSE TopKStore_worst_LastMinimum(its, j + 1,
             IF its[j].score <= its[worst].score THEN j ELSE worst)

\* stress.ts: the scan `for (let i = 1; ...) if (items[i].score < items[worst].score) worst = i`
\* (indices from 1 here)
RECURSIVE TopKStore_worst(_, _, _)
TopKStore_worst(its, j, worst) ==
    IF j > Len(its) THEN worst
    ELSE TopKStore_worst(its, j + 1, IF its[j].score < its[worst].score THEN j ELSE worst)

\* a replacement that lets an equal score in
TopKStore_replace_TiesReplace(its, e, worst) ==
    IF e.score < its[worst].score
    THEN [items |-> its, ret |-> "undefined"]
    ELSE [items |-> [its EXCEPT ![worst] = e], ret |-> "undefined"]

\* stress.ts: `if (e.score <= this.items[worst].score) return; this.items[worst] = e`
TopKStore_replace(its, e, worst) ==
    IF e.score <= its[worst].score
    THEN [items |-> its, ret |-> "undefined"]
    ELSE [items |-> [its EXCEPT ![worst] = e], ret |-> "undefined"]

TopKStore_tryInsert(its, k, e) ==
    IF Len(its) < k
    THEN [items |-> Append(its, e), ret |-> "undefined"]
    ELSE TopKStore_replace(its, e, TopKStore_worst(its, 2, 1))

\* autorunner.ts: the category this store ranks by
anomalyType == "randomness"

\* entry.anomalies && typeof entry.anomalies[this.anomalyType] === 'number'
hasNumericScore(e) == "anomalies" \in DOMAIN e /\ anomalyType \in DOMAIN e.anomalies

RECURSIVE TopKAnomalyStore_worst(_, _, _)
TopKAnomalyStore_worst(its, j, worst) ==
    IF j > Len(its) THEN worst
    ELSE TopKAnomalyStore_worst(its, j + 1,
             IF hasNumericScore(its[j])
                /\ its[j].anomalies[anomalyType] < its[worst].anomalies[anomalyType]
             THEN j ELSE worst)

\* the comparison with the worst entry, the removal of its run directory, the replacement
TopKAnomalyStore_replace(its, e, worst, del) ==
    IF e.anomalies[anomalyType] <= its[worst].anomalies[anomalyType]
    THEN [items |-> its, ret |-> FALSE, deleted |-> del]
    ELSE [items |-> [its EXCEPT ![worst] = e], ret |-> TRUE,
          deleted |-> del \cup {its[worst].runDir}]

TopKAnomalyStore_tryInsert(its, k, e, del) ==
    IF ~hasNumericScore(e)
    THEN [items |-> its, ret |-> FALSE, deleted |-> del]
    ELSE IF Len(its) < k
    THEN [items |-> Append(its, e), ret |-> TRUE, deleted |-> del]
    ELSE TopKAnomalyStore_replace(its, e, TopKAnomalyStore_worst(its, 2, 1), del)

\* stress_fast: the comparator every call site passes, (a, b) => a.score > b.score
better(a, b) == a.score > b.score

RECURSIVE FastTopKStore_worst(_, _, _)
FastTopKStore_worst(its, j, worstIdx) ==
    IF j > Len(its) THEN worstIdx
    ELSE FastTopKStore_worst(its, j + 1, IF better(its[worstIdx], its[j]) THEN j ELSE worstIdx)

FastTopKStore_replace(its, e, worstIdx) ==
    IF ~better(e, its[worstIdx])
    THEN [items |-> its, ret |-> FALSE]
    ELSE [items |-> [its EXCEPT ![worstIdx] = e], ret |-> TRUE]

FastTopKStore_tryInsert(its, k, e) ==
    IF Len(its) < k
    THEN [items |-> Append(its, e), ret |-> TRUE]
    ELSE FastTopKStore_replace(its, e, FastTopKStore_worst(its, 2, 1))

\* the score a store ranks an entry by
scoreOf(e) == IF "score" \in DOMAIN e THEN e.score ELSE e.anomalies[anomalyType]

\* Array.prototype.sort((a, b) => b.score - a.score): stable, descending
RECURSIVE sortInsert(_, _)
sortInsert(sorted, e) ==
    IF sorted = <<>> THEN <<e>>
    ELSE IF scoreOf(e) >= scoreOf(Head(sorted)) THEN <<e>> \o sorted
    ELSE <<Head(sorted)>> \o sortInsert(Tail(sorted), e)

\* the entries are inserted last to first, each in front of its equals: equal scores
\* keep the order they had
RECURSIVE sortFrom(_, _, _)
sortFrom(its, j, sorted) ==
    IF j < 1 THEN sorted ELSE sortFrom(its, j - 1, sortInsert(sorted, its[j]))

sortDescending(its) == sortFrom(its, Len(its), <<>>)

Impls == {"stress.TopKStore", "autorunner.TopKAnomalyStore", "stress_fast.TopKStore"}

Scores == 0..MaxScore

\* the entries a caller may pass; id names the payload
StressEntries(id) == {[score |-> n, report |-> id] : n \in Scores}

FastEntries(id) == {[score |-> n, runIndex |-> id] : n \in Scores}

AnomalyEntries(id) ==
    {[anomalies |-> [randomness |-> n], runDir |-> id] : n \in Scores}
    \cup {[anomalies |-> [structure |-> 0], runDir |-> id]}
    \cup {[runDir |-> id]}

InitStore ==
    /\ impl \in Impls
    /\ K \in 1..MaxK
    /\ items = <<>>
    /\ offered = <<>>
    /\ deleted = {}
    /\ pc = "store"
    /\ cfg = <<>>
    /\ args = <<>>
    /\ ret = "undefined"
    /\ NoRun

\* the assignments of a tryInsert, r being its result
assignInsert(e, r) ==
    /\ items' = r.items
    /\ ret' = r.ret
    /\ deleted' = Get(r, "deleted", deleted)
    /\ offered' = Append(offered, e)
    /\ UNCHANGED <<runVars, cfg, pc, impl, K, args>>

StressTryInsert ==
    /\ pc = "store" /\ impl = "stress.TopKStore" /\ Len(offered) < MaxOffers
    /\ \E e \in StressEntries(Len(offered) + 1) :
           assignInsert(e, TopKStore_tryInsert(items, K, e))

AnomalyTryInsert ==
    /\ pc = "store" /\ impl = "autorunner.TopKAnomalyStore" /\ Len(offered) < MaxOffers
    /\ \E e \in AnomalyEntries(Len(offered) + 1) :
           assignInsert(e, TopKAnomalyStore_tryInsert(items, K, e, deleted))

FastTryInsert ==
    /\ pc = "store" /\ impl = "stress_fast.TopKStore" /\ Len(offered) < MaxOffers
    /\ \E e \in FastEntries(Len(offered) + 1) :
           assignInsert(e, FastTopKStore_tryInsert(items, K, e))

\* save(): the in-place sort (the write of the file is not modelled)
Save ==
    /\ pc = "store"
    /\ items' = sortDescending(items)
    /\ ret' = "undefined"
    /\ UNCHANGED <<runVars, cfg, pc, impl, K, offered, deleted, args>>

NextStore == StressTryInsert \/ AnomalyTryInsert \/ FastTryInsert \/ Save

SpecStore == InitStore /\ [][NextStore]_vars

(***************************************************************************)
(* applyPhase called on its own: the variants that detect corner events.   *)
(***************************************************************************)
CornerVariants == {"SquareClampReflect", "MirrorInversion", "SquareInversionReflect"}

\* the example of the specification: multiplier 7, mod 1000003, phase 5
PhaseExample == [phase |-> 5, multiplier |-> 7, mod |-> 1000003]

PhaseCalls ==
    [phase : -MaxPhase..MaxPhase, multiplier : 0..MaxMult, mod : 1..MaxMod]
    \cup {PhaseExample}

InitPhase ==
    /\ variant \in CornerVariants
    /\ \E a \in PhaseCalls, ev \in {"corner.off", "corner.diag", "edge.hit.x"} :
          /\ args = [phase |-> a.phase, eventType |-> ev]
          /\ cfg = [multiplier |-> a.multiplier, mod |-> a.mod]
    /\ pc = "call"
    /\ ret = "undefined"
    /\ s = <<>> /\ trajectory = <<>> /\ events = <<>> /\ applied = {}
    /\ inversionMask = 0 /\ didInvert = FALSE /\ i = 0
    /\ impl = "none" /\ K = 0 /\ items = <<>> /\ offered = <<>> /\ deleted = {}

CallApplyPhase ==
    /\ pc = "call"
    /\ ret' = applyPhase(variant, args.phase, args.eventType, cfg)
    /\ pc' = "done"
    /\ UNCHANGED <<runVars, cfg, storeVars, args>>

NextPhase == CallApplyPhase

SpecPhase == InitPhase /\ [][NextPhase]_vars

(***************************************************************************)
(* computeInversionStepFromStart called on its own.                        *)
(***************************************************************************)
\* basicCfg of core.test.ts
basicCfg ==
    [sizeX |-> 5, sizeY |-> 7, x0 |-> 1, y0 |-> 1, vx0 |-> 1, vy0 |-> 1, phase0 |-> 0,
     steps |-> 100, multiplier |-> 7, mod |-> 1000003]

HashConfigs ==
    [sizeX : 1..MaxHashSize, sizeY : 1..MaxHashSize, x0 : {0, 1}, y0 : {0, 1},
     vx0 : {-1, 1}, vy0 : {-2, 1}, phase0 : {0}, steps : -1..MaxHashSteps,
     multiplier : {2, 7}, mod : {5, 1000003}]
    \cup {basicCfg}

InitHash ==
    /\ cfg \in HashConfigs
    /\ pc = "call"
    /\ args = <<>>
    /\ ret = "undefined"
    /\ NoRun
    /\ impl = "none" /\ K = 0 /\ items = <<>> /\ offered = <<>> /\ deleted = {}

CallComputeInversionStep ==
    /\ pc = "call"
    /\ ret' = computeInversionStepFromStart(cfg)
    /\ pc' = "done"
    /\ UNCHANGED <<runVars, cfg, storeVars, args>>

NextHash == CallComputeInversionStep

SpecHash == InitHash /\ [][NextHash]_vars

(***************************************************************************)
(* stepOnce called on its own, for each variant, on a state inside the     *)
(* grid.                                                                   *)
(***************************************************************************)
StepConfigs ==
    {Spread([sizeX |-> sx, sizeY |-> sy, x0 |-> 0, y0 |-> 0, vx0 |-> 1, vy0 |-> 1,
             phase0 |-> 0, steps |-> MaxSteps, multiplier |-> Multiplier, mod |-> Mod], o) :
        sx \in 1..MaxGrid, sy \in 1..MaxGrid,
        o \in {<<>>, [reflectMode |-> "reflect"]}}

\* the states inside the grid of c; a sticky state may carry the stuck flag that
\* SquareStickyReflect.stepOnce sets
StepStates(v, c) ==
    {Spread([step |-> n, x |-> x, y |-> y, vx |-> vx, vy |-> vy, phase |-> 0], o) :
        n \in {0, MaxSteps - 1}, x \in 0..c.sizeX, y \in 0..c.sizeY,
        vx \in -MaxVel..MaxVel, vy \in -MaxVel..MaxVel,
        o \in IF v = "SquareStickyReflect"
              THEN {<<>>, [stuck |-> TRUE], [stuck |-> FALSE]}
              ELSE {<<>>}}

InitStep ==
    /\ variant \in Variants
    /\ cfg \in StepConfigs
    /\ args \in StepStates(variant, cfg)
    /\ pc = "call"
    /\ ret = "undefined"
    /\ s = <<>> /\ trajectory = <<>> /\ events = <<>> /\ applied = {}
    /\ inversionMask = 0 /\ didInvert = FALSE /\ i = 0
    /\ impl = "none" /\ K = 0 /\ items = <<>> /\ offered = <<>> /\ deleted = {}

CallStepOnce ==
    /\ pc = "call"
    /\ ~stepOnceThrows(variant, cfg)
    /\ ret' = stepOnce(variant, args, cfg)
    /\ pc' = "done"
    /\ UNCHANGED <<runVars, cfg, storeVars, args>>

NextStep == CallStepOnce

SpecStep == InitStep /\ [][NextStep]_vars

(***************************************************************************)
(* reflectWithRemainder called on its own, on one axis [0, hi].            *)
(***************************************************************************)
\* the example of the specification: pos 0, vel -3, lo 0, hi 5
FoldExample == [pos |-> 0, vel |-> -3, lo |-> 0, hi |-> 5]

ReflectCalls ==
    {[pos |-> p, vel |-> v, lo |-> 0, hi |-> h] :
        h \in 1..MaxWall, p \in 0..MaxWall, v \in -MaxSpeed..MaxSpeed}
    \cup {FoldExample}

InitReflect ==
    /\ args \in {a \in ReflectCalls : a.pos <= a.hi}
    /\ pc = "call"
    /\ ret = "undefined"
    /\ cfg = <<>>
    /\ NoRun
    /\ impl = "none" /\ K = 0 /\ items = <<>> /\ offered = <<>> /\ deleted = {}

CallReflectWithRemainder ==
    /\ pc = "call"
    /\ ret' = reflectWithRemainder(args.pos, args.vel, args.lo, args.hi)
    /\ pc' = "done"
    /\ UNCHANGED <<runVars, cfg, storeVars, args>>

NextReflect == CallReflectWithRemainder

SpecReflect == InitReflect /\ [][NextReflect]_vars

(***************************************************************************)
(* The constructors of the stores: the load of a persisted file.           *)
(***************************************************************************)
\* what a file may hold at position id: the entries a store saves, and an entry
\* that lacks its score
StoredEntries(id) ==
    CASE impl = "stress.TopKStore" -> StressEntries(id) \cup {[report |-> id]}
      [] impl = "autorunner.TopKAnomalyStore" -> AnomalyEntries(id)
      [] OTHER -> FastEntries(id) \cup {[runIndex |-> id]}

\* the files: none at the path, one that JSON.parse rejects, an array of entries
Files ==
    {[exists |-> FALSE, parses |-> FALSE, entries |-> <<>>],
     [exists |-> TRUE, parses |-> FALSE, entries |-> <<>>]}
    \cup UNION {{[exists |-> TRUE, parses |-> TRUE, entries |-> f] :
                    f \in {g \in [1..n -> UNION {StoredEntries(id) : id \in 1..n}] :
                              \A id \in 1..n : g[id] \in StoredEntries(id)}} :
                n \in 0..MaxFile}

\* stress.ts: `if (fs.existsSync(file)) this.items = JSON.parse(...)`
TopKStore_constructor(file) ==
    IF ~file.exists THEN [items |-> <<>>, threw |-> FALSE]
    ELSE IF ~file.parses THEN [items |-> <<>>, threw |-> TRUE]
    ELSE [items |-> file.entries, threw |-> FALSE]

\* autorunner.ts: parse, filter, sort, slice(0, K) inside try; catch gives []
TopKAnomalyStore_constructor(file, k) ==
    IF ~file.exists THEN [items |-> <<>>, threw |-> FALSE]
    ELSE IF ~file.parses THEN [items |-> <<>>, threw |-> FALSE]
    ELSE [items |-> SubSeq(sortDescending(SelectSeq(file.entries, hasNumericScore)), 1,
                           Min(k, Len(SelectSeq(file.entries, hasNumericScore)))),
          threw |-> FALSE]

\* stress_fast: the constructor of stress.ts with its fields spelled out
FastTopKStore_constructor(file) ==
    IF ~file.exists THEN [items |-> <<>>, threw |-> FALSE]
    ELSE IF ~file.parses THEN [items |-> <<>>, threw |-> TRUE]
    ELSE [items |-> file.entries, threw |-> FALSE]

InitLoad ==
    /\ impl \in Impls
    /\ K \in 1..MaxK
    /\ args \in Files
    /\ items = <<>>
    /\ offered = <<>>
    /\ deleted = {}
    /\ pc = "new"
    /\ cfg = <<>>
    /\ ret = "undefined"
    /\ NoRun

\* the assignments of a constructor, r being its result
assignConstruct(r) ==
    /\ items' = r.items
    /\ pc' = IF r.threw THEN "threw" ELSE "loaded"
    /\ UNCHANGED <<runVars, cfg, impl, K, offered, deleted, args, ret>>

StressConstruct ==
    /\ pc = "new" /\ impl = "stress.TopKStore"
    /\ assignConstruct(TopKStore_constructor(args))

AnomalyConstruct ==
    /\ pc = "new" /\ impl = "autorunner.TopKAnomalyStore"
    /\ assignConstruct(TopKAnomalyStore_constructor(args, K))

FastConstruct ==
    /\ pc = "new" /\ impl = "stress_fast.TopKStore"
    /\ assignConstruct(FastTopKStore_constructor(args))

NextLoad == StressConstruct \/ AnomalyConstruct \/ FastConstruct

SpecLoad == InitLoad /\ [][NextLoad]_vars

(***************************************************************************)
(* clampReflect called on its own, on one axis [0, hi].                    *)
(***************************************************************************)
ClampCalls ==
    {[pos |-> p, vel |-> v, lo |-> 0, hi |-> h] :
        h \in 1..MaxWall, p \in 0..MaxWall, v \in -MaxSpeed..MaxSpeed}

InitClamp ==
    /\ args \in {a \in ClampCalls : a.pos <= a.hi}
    /\ pc = "call"
    /\ ret = "undefined"
    /\ cfg = <<>>
    /\ NoRun
    /\ impl = "none" /\ K = 0 /\ items = <<>> /\ offered = <<>> /\ deleted = {}

CallClampReflect ==
    /\ pc = "call"
    /\ ret' = clampReflect(args.pos, args.vel, args.lo, args.hi)
    /\ pc' = "done"
    /\ UNCHANGED <<runVars, cfg, storeVars, args>>

NextClamp == CallClampReflect

SpecClamp == InitClamp /\ [][NextClamp]_vars

(***************************************************************************)
(* The job loop (main.ts runDistributedJob, worker.ts startWorker,         *)
(* coordinator runNextJob), run by several workers on one jobs table.      *)
(* Every `await supabase...` is one step on the table; the workers         *)
(* interleave between their awaits.  Here items is the jobs table, a row   *)
(* being [status, runs, completed] (runs and completed count the            *)
(* simulations started and the updates to 'completed'), and args gives     *)
(* each worker its position and the row it read.                           *)
(***************************************************************************)
JobLoops == {"main.runDistributedJob", "worker.startWorker", "coordinator.runNextJob"}

Workers == 1..MaxWorkers

\* the tables: n rows, all pending
Tables ==
    {[j \in 1..n |-> [status |-> "pending", runs |-> 0, completed |-> 0]] : n \in 1..MaxJobs}

\* .eq('status', 'pending'): the rows the select may return
pendingJobs(table) == {j \in 1..Len(table) : table[j].status = "pending"}

\* .update({ status }).eq('id', job.id)
updateStatus(table, j, status) == [table EXCEPT ![j].status = status]

\* where a worker goes when its pass is over: startWorker loops, the others return
afterPass(loop) == IF loop = "worker.startWorker" THEN "select" ELSE "done"

\* the status the catch block writes
statusOnFailure(loop) == IF loop = "coordinator.runNextJob" THEN "failed" ELSE "pending"

InitJobs ==
    /\ impl \in JobLoops
    /\ items \in Tables
    /\ args = [w \in Workers |-> [pc |-> "select", job |-> 0]]
    /\ pc = "jobs"
    /\ K = 0 /\ offered = <<>> /\ deleted = {}
    /\ cfg = <<>>
    /\ ret = "undefined"
    /\ NoRun

\* the assignments of one step of worker w
assignWorker(w, table, position, j) ==
    /\ items' = table
    /\ args' = [args EXCEPT ![w] = [pc |-> position, job |-> j]]
    /\ UNCHANGED <<runVars, cfg, pc, impl, K, offered, deleted, ret>>

\* select('*').eq('status', 'pending').limit(1).single(): a pending row, in no
\* stated order
SelectPending(w) ==
    /\ pc = "jobs" /\ args[w].pc = "select"
    /\ \E j \in pendingJobs(items) : assignWorker(w, items, "lock", j)

\* `if (error || !job)`: return, or wait and poll again
NoJob(w) ==
    /\ pc = "jobs" /\ args[w].pc = "select"
    /\ pendingJobs(items) = {}
    /\ assignWorker(w, items, afterPass(impl), 0)

\* update({ status: 'processing' }).eq('id', job.id)
MarkProcessing(w) ==
    /\ pc = "jobs" /\ args[w].pc = "lock"
    /\ assignWorker(w, updateStatus(items, args[w].job, "processing"), "try", args[w].job)

\* the simulation of the try block returns
RunSimulation(w) ==
    /\ pc = "jobs" /\ args[w].pc = "try"
    /\ items[args[w].job].runs < MaxRuns
    /\ assignWorker(w, [items EXCEPT ![args[w].job].runs = @ + 1], "submit", args[w].job)

\* the simulation of the try block throws
SimulationThrows(w) ==
    /\ pc = "jobs" /\ args[w].pc = "try"
    /\ items[args[w].job].runs < MaxRuns
    /\ assignWorker(w, [items EXCEPT ![args[w].job].runs = @ + 1], "catch", args[w].job)

\* update({ status: 'completed', result }).eq('id', job.id)
MarkCompleted(w) ==
    /\ pc = "jobs" /\ args[w].pc = "submit"
    /\ assignWorker(w, [updateStatus(items, args[w].job, "completed")
                           EXCEPT ![args[w].job].completed = @ + 1],
                    afterPass(impl), 0)

\* the catch block: update({ status: 'pending' }), or 'failed' in the coordinator
CatchFailure(w) ==
    /\ pc = "jobs" /\ args[w].pc = "catch"
    /\ assignWorker(w, updateStatus(items, args[w].job, statusOnFailure(impl)),
                    afterPass(impl), 0)

NextJobs ==
    \E w \in Workers :
        \/ SelectPending(w)
        \/ NoJob(w)
        \/ MarkProcessing(w)
        \/ RunSimulation(w)
        \/ SimulationThrows(w)
        \/ MarkCompleted(w)
        \/ CatchFailure(w)

SpecJobs == InitJobs /\ [][NextJobs]_vars

(***************************************************************************)
(* autorunner.ts: one run entry offered to every category store.  Here     *)
(* items maps a category to the items of its TopKAnomalyStore; deleted is  *)
(* the set of run directories removed from disk.                           *)
(***************************************************************************)
\* the stores of anomalyStores, in the order of Object.entries
Categories == <<"randomness", "structure">>

\* entry.anomalies && typeof entry.anomalies[this.anomalyType] === 'number'
hasScoreOfType(e, type) == "anomalies" \in DOMAIN e /\ type \in DOMAIN e.anomalies

\* tryInsert of the store of a category: the scan for the worst entry
RECURSIVE TopKAnomalyStore_worstOfType(_, _, _, _)
TopKAnomalyStore_worstOfType(its, j, worst, type) ==
    IF j > Len(its) THEN worst
    ELSE TopKAnomalyStore_worstOfType(its, j + 1,
             IF hasScoreOfType(its[j], type)
                /\ its[j].anomalies[type] < its[worst].anomalies[type]
             THEN j ELSE worst, type)

\* the comparison with the worst entry, the removal of its run directory, the replacement
TopKAnomalyStore_replaceOfType(its, e, worst, del, type) ==
    IF e.anomalies[type] <= its[worst].anomalies[type]
    THEN [items |-> its, ret |-> FALSE, deleted |-> del]
    ELSE [items |-> [its EXCEPT ![worst] = e], ret |-> TRUE,
          deleted |-> del \cup {its[worst].runDir}]

TopKAnomalyStore_tryInsertOfType(its, k, e, del, type) ==
    IF ~hasScoreOfType(e, type)
    THEN [items |-> its, ret |-> FALSE, deleted |-> del]
    ELSE IF Len(its) < k
    THEN [items |-> Append(its, e), ret |-> TRUE, deleted |-> del]
    ELSE TopKAnomalyStore_replaceOfType(its, e,
             TopKAnomalyStore_worstOfType(its, 2, 1, type), del, type)

\* save(): sort((a, b) => b.anomalies[type] - a.anomalies[type]), stable
RECURSIVE sortInsertOfType(_, _, _)
sortInsertOfType(sorted, e, type) ==
    IF sorted = <<>> THEN <<e>>
    ELSE IF e.anomalies[type] >= Head(sorted).anomalies[type] THEN <<e>> \o sorted
    ELSE <<Head(sorted)>> \o sortInsertOfType(Tail(sorted), e, type)

RECURSIVE sortFromOfType(_, _, _, _)
sortFromOfType(its, j, sorted, type) ==
    IF j < 1 THEN sorted
    ELSE sortFromOfType(its, j - 1, sortInsertOfType(sorted, its[j], type), type)

TopKAnomalyStore_save(its, type) == sortFromOfType(its, Len(its), <<>>, type)

\* the log entry of a run: a score in every category, and its run directory
RunEntries(id) ==
    {[anomalies |-> [randomness |-> a, structure |-> b], runDir |-> id] :
        a \in Scores, b \in Scores}

\* `for (const [type, store] of Object.entries(anomalyStores)) store.tryInsert(logEntry)`
\* from store k on; st = [items, deleted, inserted]
RECURSIVE insertIntoStores(_, _, _, _)
insertIntoStores(st, k, e, cap) ==
    IF k > Len(Categories) THEN st
    ELSE insertIntoStores(
             [items |-> [st.items EXCEPT ![Categories[k]] =
                            TopKAnomalyStore_tryInsertOfType(st.items[Categories[k]], cap, e,
                                                             st.deleted, Categories[k]).items],
              deleted |-> TopKAnomalyStore_tryInsertOfType(st.items[Categories[k]], cap, e,
                                                           st.deleted, Categories[k]).deleted,
              inserted |-> st.inserted
                           \/ TopKAnomalyStore_tryInsertOfType(st.items[Categories[k]], cap, e,
                                                               st.deleted, Categories[k]).ret],
             k + 1, e, cap)

\* `if (inserted) for (const store of Object.values(anomalyStores)) store.save()`
saveStores(st) ==
    IF st.inserted
    THEN [type \in DOMAIN st.items |-> TopKAnomalyStore_save(st.items[type], type)]
    ELSE st.items

InitAutorunner ==
    /\ impl = "autorunner.runBackgroundSimulations"
    /\ K \in 1..MaxK
    /\ items = [type \in {Categories[k] : k \in 1..Len(Categories)} |-> <<>>]
    /\ offered = <<>>
    /\ deleted = {}
    /\ pc = "autorunner"
    /\ cfg = <<>>
    /\ args = <<>>
    /\ ret = "undefined"
    /\ NoRun

\* the assignments of one pass over the stores, st being insertIntoStores' result
assignOffer(e, st) ==
    /\ items' = saveStores(st)
    /\ deleted' = st.deleted
    /\ offered' = Append(offered, e)
    /\ UNCHANGED <<runVars, cfg, pc, impl, K, args, ret>>

\* a finished run: its entry is offered to every store
OfferRun ==
    /\ pc = "autorunner" /\ Len(offered) < MaxOffers
    /\ \E e \in RunEntries(Len(offered) + 1) :
           assignOffer(e, insertIntoStores([items |-> items, deleted |-> deleted,
                                            inserted |-> FALSE], 1, e, K))

NextAutorunner == OfferRun

SpecAutorunner == InitAutorunner /\ [][NextAutorunner]_vars

(***************************************************************************)
(* Properties of the run loop (checked under Spec).                        *)
(***************************************************************************)
\* the indices of the events of a type
eventsOfType(evs, eventType) == {j \in 1..Len(evs) : evs[j].eventType = eventType}

\* an entry of kind k has fired at some tick <= t
firedBy(evs, k, t) ==
    \E j \in eventsOfType(evs, InvertEventType(k)) : evs[j].step <= t

\* C2: a run that completes returns a trajectory of exactly cfg.steps + 1 entries,
\* whatever the variant, the schedule or the legacy inversion step.
C2_TrajectoryLength ==
    pc = "returned" => Len(ret.trajectory) = cfg.steps + 1

C2_Witness ==
    /\ pc = "returned"
    /\ cfg.steps = MaxSteps
    /\ "inversionSchedule" \in DOMAIN cfg
    /\ Len(ret.events) >= 2
    /\ Len(ret.trajectory) = MaxSteps + 1

\* C3: the event log holds at most one INVERT_<kind> event for each kind, also when
\* the schedule lists a kind several times, at equal or at different steps.
C3_ScheduleOnce ==
    \A k \in Kinds : Cardinality(eventsOfType(events, InvertEventType(k))) <= 1

\* a schedule listing one kind twice, at two steps the run has both passed
C3_Witness ==
    /\ "inversionSchedule" \in DOMAIN cfg
    /\ \E a, b \in 1..Len(cfg.inversionSchedule) :
          /\ a < b
          /\ cfg.inversionSchedule[a].kind = cfg.inversionSchedule[b].kind
          /\ cfg.inversionSchedule[a].step < cfg.inversionSchedule[b].step
          /\ cfg.inversionSchedule[b].step <= i
          /\ Cardinality(eventsOfType(events,
                 InvertEventType(cfg.inversionSchedule[a].kind))) = 1

\* C8: with inversionStep = n, 1 <= n <= steps, and no schedule, the log of the
\* completed run holds exactly one INVERT event, its step is n, and the trajectory
\* entry of tick n is marked inverted.
C8_LegacyInversion ==
    (/\ pc = "returned"
     /\ "inversionSchedule" \notin DOMAIN cfg
     /\ "inversionStep" \in DOMAIN cfg
     /\ 1 <= cfg.inversionStep /\ cfg.inversionStep <= cfg.steps)
    => /\ Cardinality(eventsOfType(ret.events, "INVERT")) = 1
       /\ \A j \in eventsOfType(ret.events, "INVERT") :
             ret.events[j].step = cfg.inversionStep
       /\ ret.trajectory[cfg.inversionStep + 1].step = cfg.inversionStep
       /\ ret.trajectory[cfg.inversionStep + 1].inverted = TRUE

\* the check of stress_fast's runOne: SquareInversionReflect, inverted before the end
C8_Witness ==
    /\ pc = "returned"
    /\ variant = "SquareInversionReflect"
    /\ "inversionSchedule" \notin DOMAIN cfg
    /\ "inversionStep" \in DOMAIN cfg
    /\ 1 <= cfg.inversionStep /\ cfg.inversionStep < cfg.steps
    /\ eventsOfType(ret.events, "INVERT") # {}

\* C9: once a schedule entry has fired at tick t, every trajectory entry of a tick
\* t' >= t has inverted = true.
C9_InvertedPermanent ==
    \A n \in 1..Len(trajectory) :
        (\E k \in Kinds : firedBy(events, k, trajectory[n].step))
        => trajectory[n].inverted = TRUE

\* C10: the inversionMask recorded at tick t has the bit of kind k set if and only
\* if an entry of kind k has fired at some tick <= t.
C10_MaskTracksFirings ==
    \A n \in 1..Len(trajectory) : \A k \in Kinds :
        BitSet(trajectory[n].inversionMask, KindBit(k))
        <=> firedBy(events, k, trajectory[n].step)

(***************************************************************************)
(* Properties of the Top-K stores (checked under SpecStore).               *)
(***************************************************************************)
\* an entry with a numeric score for the store
isScored(e) == "score" \in DOMAIN e \/ hasNumericScore(e)

scoredOffers == SelectSeq(offered, isScored)

\* how many entries of a sequence have score v, or a score above v
countAt(seq, v) == Cardinality({j \in 1..Len(seq) : scoreOf(seq[j]) = v})
countAbove(seq, v) == Cardinality({j \in 1..Len(seq) : scoreOf(seq[j]) > v})

\* the lowest score held
minScore(its) == CHOOSE v \in {scoreOf(its[j]) : j \in 1..Len(its)} :
                    \A j \in 1..Len(its) : v <= scoreOf(its[j])

\* C4: after any sequence of tryInsert calls on an initially empty store of
\* capacity K, n entries (each with a numeric score) having been offered, the store
\* holds min(n, K) entries and their scores are, as a multiset, the min(n, K)
\* highest scores offered: a score v is held as often as it was offered, up to the
\* room left by the higher scores.
C4_KeepsHighest ==
    pc = "store" =>
        /\ Len(items) = Min(Len(scoredOffers), K)
        /\ \A j \in 1..Len(items) : isScored(items[j])
        /\ \A v \in Scores :
              countAt(items, v)
              = Min(countAt(scoredOffers, v),
                    Max(0, Min(Len(scoredOffers), K) - countAbove(scoredOffers, v)))

\* a full store that has replaced an entry: an offered entry is gone, a later one is in
C4_Witness ==
    /\ pc = "store"
    /\ Len(items) = K
    /\ \E a, b \in 1..Len(offered) :
          /\ a < b
          /\ isScored(offered[a])
          /\ \A j \in 1..Len(items) : items[j] # offered[a]
          /\ \E j \in 1..Len(items) : items[j] = offered[b]
          /\ b > K

\* C5: on a full store a tryInsert replaces an entry (one holding the lowest score)
\* if and only if the new score is strictly greater than the lowest score held;
\* otherwise the items are left as they were.
C5_StrictlyGreaterReplaces ==
    [][(pc = "store" /\ Len(items) = K /\ Len(offered') = Len(offered) + 1)
       => IF isScored(offered'[Len(offered')])
             /\ scoreOf(offered'[Len(offered')]) > minScore(items)
          THEN \E j \in 1..Len(items) :
                  /\ scoreOf(items[j]) = minScore(items)
                  /\ items' = [items EXCEPT ![j] = offered'[Len(offered')]]
                  /\ items' # items
          ELSE items' = items]_vars

\* a full store offered a score equal to its lowest: the newcomer is not held
C5_Witness ==
    /\ pc = "store"
    /\ Len(items) = K
    /\ Len(offered) > K
    /\ isScored(offered[Len(offered)])
    /\ scoreOf(offered[Len(offered)]) = minScore(items)
    /\ \A j \in 1..Len(items) : items[j] # offered[Len(offered)]

(***************************************************************************)
(* Properties of applyPhase (checked under SpecPhase).                     *)
(***************************************************************************)
\* C6: for a phase in [0, mod) and a non-negative integer multiplier, applyPhase
\* returns (phase * multiplier) mod mod for an off-diagonal corner and
\* (phase + 1) mod mod for a diagonal corner; with multiplier 7 and mod 1000003,
\* phase 5 becomes 35, respectively 6.
C6_PhaseRules ==
    (pc = "done" /\ 0 <= args.phase /\ args.phase < cfg.mod /\ cfg.multiplier >= 0)
    => /\ args.eventType = "corner.off"
            => ret = (args.phase * cfg.multiplier) % cfg.mod
       /\ args.eventType = "corner.diag"
            => ret = (args.phase + 1) % cfg.mod
       /\ (args.phase = 5 /\ cfg.multiplier = 7 /\ cfg.mod = 1000003)
            => /\ args.eventType = "corner.off" => ret = 35
               /\ args.eventType = "corner.diag" => ret = 6

C6_Witness ==
    /\ pc = "done"
    /\ args = [phase |-> 5, eventType |-> "corner.off"]
    /\ cfg = [multiplier |-> 7, mod |-> 1000003]
    /\ ret = 35

(***************************************************************************)
(* Properties of computeInversionStepFromStart (checked under SpecHash).   *)
(***************************************************************************)
\* C7: the step returned lies in [1, steps - 1] when steps > 1 and is 0 when
\* steps <= 1; a hash that is 0 modulo steps gives 1.
C7_StepRange ==
    pc = "done" =>
        IF cfg.steps > 1
        THEN /\ 1 <= ret /\ ret <= cfg.steps - 1
             /\ UMod(configHash(cfg), cfg.steps) = 0 => ret = 1
        ELSE ret = 0

\* a configuration whose hash is a multiple of steps
C7_Witness ==
    /\ pc = "done"
    /\ cfg.steps > 2
    /\ UMod(configHash(cfg), cfg.steps) = 0
    /\ ret = 1

(***************************************************************************)
(* Properties of the two inversion modes (checked under Spec).             *)
(***************************************************************************)
\* the indices of the INVERT_<kind> events
scheduleEvents(evs) == UNION {eventsOfType(evs, InvertEventType(k)) : k \in Kinds}

\* C11: the two inversion modes exclude each other: with an inversionSchedule (even
\* an empty one) no INVERT event is logged whatever inversionStep is, and no log
\* holds both an INVERT event and an INVERT_<kind> event.
C11_ModesExclusive ==
    /\ "inversionSchedule" \in DOMAIN cfg => eventsOfType(events, "INVERT") = {}
    /\ eventsOfType(events, "INVERT") = {} \/ scheduleEvents(events) = {}

\* a run given both, past its inversionStep, whose schedule entry has fired
C11_Witness ==
    /\ pc = "returned"
    /\ "inversionSchedule" \in DOMAIN cfg
    /\ "inversionStep" \in DOMAIN cfg
    /\ 1 <= cfg.inversionStep /\ cfg.inversionStep <= cfg.steps
    /\ scheduleEvents(ret.events) # {}
    /\ eventsOfType(ret.events, "INVERT") = {}

\* C12: for every variant, a run given an invalid configuration (sizeX, sizeY or mod
\* not positive) raises the error to the caller: it returns nothing and executes
\* no tick.
C12_InvalidConfigRaises ==
    ~assertValidConfig(cfg) => (pc # "returned" /\ i = 0 /\ Len(trajectory) = 1)

(***************************************************************************)
(* Properties of stepOnce (checked under SpecStep).                        *)
(***************************************************************************)
\* C13: for each of the four variants, stepOnce applied to a state inside
\* [0, sizeX] x [0, sizeY], whatever its integer velocity, returns a state inside
\* [0, sizeX] x [0, sizeY].
C13_StepStaysInGrid ==
    pc = "done" =>
        /\ 0 <= ret.x /\ ret.x <= cfg.sizeX
        /\ 0 <= ret.y /\ ret.y <= cfg.sizeY

(***************************************************************************)
(* Properties of reflectWithRemainder (checked under SpecReflect).         *)
(***************************************************************************)
\* the reference: n unit steps from pos in direction dir (1 or -1), reversing at
\* the walls 0 and L
RECURSIVE walk(_, _, _, _)
walk(pos, dir, n, L) ==
    IF n = 0 THEN [p |-> pos, d |-> dir]
    ELSE IF pos + dir < 0 \/ pos + dir > L
         THEN walk(pos - dir, -dir, n - 1, L)
         ELSE walk(pos + dir, dir, n - 1, L)

\* C14: in true-reflect mode, for pos in [0, L], any integer vel and L > 0, the
\* result is that of travelling |vel| unit steps from pos in the direction of vel
\* with reversal at the walls: the same final position, the same speed and, when
\* the final position is strictly inside (0, L), the same direction of travel;
\* pos 0, vel -3, L 5 gives pos 3 with velocity +3.
C14_FoldIsReflection ==
    pc = "done" =>
        /\ ret.p = walk(args.pos, sign(args.vel), Abs(args.vel), args.hi).p
        /\ Abs(ret.v) = Abs(args.vel)
        /\ (0 < ret.p /\ ret.p < args.hi /\ args.vel # 0)
              => sign(ret.v) = walk(args.pos, sign(args.vel), Abs(args.vel), args.hi).d
        /\ args = FoldExample => (ret.p = 3 /\ ret.v = 3)

\* a fold across two walls that ends strictly inside, travelling as it started
C14_Witness ==
    /\ pc = "done"
    /\ Abs(args.vel) > 2 * args.hi
    /\ 0 < ret.p /\ ret.p < args.hi
    /\ ret.v = args.vel
    /\ ret.p # args.pos

(***************************************************************************)
(* Properties of the events of a tick (checked under Spec).                *)
(***************************************************************************)
\* the indices of the corner events logged at tick t
cornerEventsAt(evs, t) ==
    {j \in 1..Len(evs) : evs[j].step = t /\ startsWithCorner(evs[j].eventType)}

\* C15: with the clamp-reflect variant a corner event is logged at tick t if and
\* only if the position recorded for tick t has x in {0, sizeX} and y in
\* {0, sizeY}; there is exactly one on each such tick, and in the default mode it
\* is corner.diag exactly at (0,0) and (sizeX,sizeY), corner.off otherwise.
C15_CornerEvents ==
    variant = "SquareClampReflect" =>
        \A n \in 2..Len(trajectory) :
            IF trajectory[n].x \in {0, cfg.sizeX} /\ trajectory[n].y \in {0, cfg.sizeY}
            THEN /\ Cardinality(cornerEventsAt(events, trajectory[n].step)) = 1
                 /\ \A j \in cornerEventsAt(events, trajectory[n].step) :
                       events[j].eventType =
                          IF \/ trajectory[n].x = 0 /\ trajectory[n].y = 0
                             \/ trajectory[n].x = cfg.sizeX /\ trajectory[n].y = cfg.sizeY
                          THEN "corner.diag" ELSE "corner.off"
                 /\ trajectory[n].isCorner = TRUE
            ELSE /\ cornerEventsAt(events, trajectory[n].step) = {}
                 /\ trajectory[n].isCorner = FALSE

\* two consecutive ticks on a corner, a diagonal corner among them
C15_Witness ==
    /\ variant = "SquareClampReflect"
    /\ \E n \in 2..(Len(trajectory) - 1) :
          /\ cornerEventsAt(events, trajectory[n].step) # {}
          /\ cornerEventsAt(events, trajectory[n + 1].step) # {}
    /\ eventsOfType(events, "corner.diag") # {}

(***************************************************************************)
(* Properties of one tick, as a step of the run (checked under Spec).      *)
(***************************************************************************)
\* the step is a tick of the loop
isTick == pc = "loop" /\ i' = i + 1

\* the state the variant proposes for the tick
proposed == stepOnce(variant, s, cfg)

\* the trajectory entry the tick records
recorded == trajectory'[Len(trajectory')]

\* the indices of the events the tick logs
tickEvents == (Len(events) + 1)..Len(events')

\* the kinds of the schedule entries firing at the tick
firedNow ==
    {k \in Kinds : \E j \in tickEvents : events'[j].eventType = InvertEventType(k)}

\* C16: when a GEOM entry is the only schedule entry firing at a tick, the state
\* recorded for the tick is at (x0, y0) with the negation, on both axes, of the
\* velocity proposed by stepOnce, and INVERT_GEOM has phaseAfter = phaseBefore.
C16_GeomEffect ==
    [][(isTick /\ firedNow = {"GEOM"})
       => /\ recorded.x = cfg.x0 /\ recorded.y = cfg.y0
          /\ recorded.vx = -proposed.vx /\ recorded.vy = -proposed.vy
          /\ \A j \in tickEvents :
                events'[j].eventType = "INVERT_GEOM"
                => /\ events'[j].phaseAfter = events'[j].phaseBefore
                   /\ events'[j].x = cfg.x0 /\ events'[j].y = cfg.y0]_vars

\* a tick past the first at which GEOM alone fired: the state is back at (x0, y0)
C16_Witness ==
    /\ pc = "loop"
    /\ \E j \in 1..Len(events) :
          /\ events[j].eventType = "INVERT_GEOM"
          /\ events[j].step = i
          /\ events[j].step > 1
          /\ \A k \in Kinds \ {"GEOM"} : \A m \in eventsOfType(events, InvertEventType(k)) :
                events[m].step # i
    /\ s.x = cfg.x0 /\ s.y = cfg.y0 /\ s.vx # 0

\* what C17 says of position and velocity, and of the firing's phase
sphereEffect ==
    /\ recorded.x = cfg.sizeX - 1 - proposed.x
    /\ recorded.y = cfg.sizeY - 1 - proposed.y
    /\ recorded.vx = proposed.vx /\ recorded.vy = proposed.vy
    /\ \A j \in tickEvents :
          events'[j].eventType = "INVERT_SPHERE"
          => /\ events'[j].phaseBefore = proposed.phase
             /\ events'[j].phaseAfter = proposed.phase

\* C17 (as stated): when a SPHERE entry is the only schedule entry firing at a
\* tick, the recorded position is (round(sizeX - 1 - x), round(sizeY - 1 - y)) for
\* the proposed (x, y), and the recorded velocity and phase are those proposed.
C17_SphereEffect_Original ==
    [][(isTick /\ firedNow = {"SPHERE"})
       => (sphereEffect /\ recorded.phase = proposed.phase)]_vars

\* C17 (amended): when a SPHERE entry is the only schedule entry firing at a tick,
\* the recorded position is the point reflection of the proposed one, the recorded
\* velocity is the proposed one, and the firing leaves the phase as proposed
\* (INVERT_SPHERE has phaseBefore = phaseAfter = the proposed phase); the recorded
\* phase is the last phaseAfter logged at the tick.
C17_SphereEffect ==
    [][(isTick /\ firedNow = {"SPHERE"})
       => (sphereEffect /\ recorded.phase = events'[Len(events')].phaseAfter)]_vars

\* a tick at which SPHERE alone fired and landed on a corner, whose event changed
\* the phase
C17_Witness ==
    /\ pc = "loop"
    /\ \E j \in eventsOfType(events, "INVERT_SPHERE") :
          /\ events[j].step = i
          /\ \A k \in Kinds \ {"SPHERE"} : \A m \in eventsOfType(events, InvertEventType(k)) :
                events[m].step # i
          /\ \E m \in cornerEventsAt(events, i) :
                /\ events[m].phaseBefore = events[j].phaseAfter
                /\ events[m].phaseAfter # events[m].phaseBefore
                /\ s.phase = events[m].phaseAfter

\* what C18 says of a tick at which OBSERVER fires
observerEffect ==
    /\ \A j \in tickEvents :
          events'[j].eventType = "INVERT_OBSERVER"
          => /\ events'[j].phaseBefore = s.phase
             /\ events'[j].phaseAfter = -s.phase
    /\ recorded.x = proposed.x /\ recorded.y = proposed.y
    /\ recorded.vx = proposed.vx /\ recorded.vy = proposed.vy

\* C18 (as stated): when an OBSERVER entry fires, the phase becomes the exact
\* negation of the phase carried into the tick (phaseAfter = -phaseBefore, not
\* reduced modulo mod), and position and velocity are those proposed by stepOnce.
C18_ObserverEffect_Original ==
    [][(isTick /\ "OBSERVER" \in firedNow) => observerEffect]_vars

\* C18 (amended): the same, when no GEOM and no SPHERE entry fires at the same tick.
C18_ObserverEffect ==
    [][(isTick /\ "OBSERVER" \in firedNow /\ "GEOM" \notin firedNow
               /\ "SPHERE" \notin firedNow) => observerEffect]_vars

\* a tick at which OBSERVER and CAUSAL fired and the phase went negative
C18_Witness ==
    /\ pc = "loop"
    /\ \E j \in eventsOfType(events, "INVERT_OBSERVER") :
          /\ events[j].step = i
          /\ events[j].phaseBefore > 0
          /\ events[j].phaseAfter = -events[j].phaseBefore
    /\ \E j \in eventsOfType(events, "INVERT_CAUSAL") : events[j].step = i
    /\ \A k \in {"GEOM", "SPHERE"} : \A m \in eventsOfType(events, InvertEventType(k)) :
          events[m].step # i

\* C19: at the legacy inversion tick the recorded state has the negation, on both
\* axes, of the velocity proposed by stepOnce and the proposed position, and the
\* INVERT event has phaseAfter = -phaseBefore, phaseBefore being the phase carried
\* into the tick.
C19_LegacyEffect ==
    [][(isTick /\ \E j \in tickEvents : events'[j].eventType = "INVERT")
       => /\ recorded.vx = -proposed.vx /\ recorded.vy = -proposed.vy
          /\ recorded.x = proposed.x /\ recorded.y = proposed.y
          /\ recorded.step = cfg.inversionStep
          /\ \A j \in tickEvents :
                events'[j].eventType = "INVERT"
                => /\ events'[j].phaseBefore = s.phase
                   /\ events'[j].phaseAfter = -s.phase]_vars

\* a legacy inversion past the first tick, with a phase to negate
C19_Witness ==
    /\ pc = "loop"
    /\ "inversionStep" \in DOMAIN cfg
    /\ i = cfg.inversionStep
    /\ i > 1
    /\ \E j \in eventsOfType(events, "INVERT") :
          /\ events[j].step = i
          /\ events[j].phaseBefore # 0
          /\ events[j].phaseAfter = -events[j].phaseBefore
          /\ events[j].vx = s.vx /\ events[j].vy = s.vy

\* the indices of the events the variant detected at the tick (all but the
\* markers of the inversions)
detectedNow ==
    {j \in tickEvents :
        events'[j].eventType \notin {"INVERT"} \cup {InvertEventType(k) : k \in Kinds}}

\* the phase of `next` after the inversions of the tick
phaseAfterInversions ==
    IF tickEvents \ detectedNow = {} THEN proposed.phase
    ELSE events'[CHOOSE j \in tickEvents \ detectedNow :
                    \A m \in tickEvents \ detectedNow : m <= j].phaseAfter

\* C20: within a tick the detected events are applied in detection order: the
\* first one's phaseBefore is the phase after any inversion of the tick, each
\* later one's phaseBefore is the previous one's phaseAfter, and the phase of the
\* tick's trajectory entry is the last one's phaseAfter.
C20_DetectionOrder ==
    [][(isTick /\ detectedNow # {})
       => /\ \A j \in detectedNow :
                events'[j].phaseBefore =
                   IF j - 1 \in detectedNow THEN events'[j - 1].phaseAfter
                   ELSE phaseAfterInversions
          /\ \A j \in detectedNow : \A m \in tickEvents \ detectedNow : m < j
          /\ recorded.phase = events'[Len(events')].phaseAfter]_vars

\* a tick with two detected events, the first of which changed the phase
C20_Witness ==
    /\ pc = "loop"
    /\ \E j \in 1..(Len(events) - 1) :
          /\ events[j].step = i /\ events[j + 1].step = i
          /\ startsWithCorner(events[j].eventType)
          /\ events[j].phaseAfter # events[j].phaseBefore
          /\ events[j + 1].eventType \in {"inversion.swap", "mirror.cross"}
          /\ events[j + 1].phaseBefore = events[j].phaseAfter
          /\ s.phase = events[j + 1].phaseAfter

\* the marker events of the inversions
isMarker(ev) == ev.eventType \in {"INVERT"} \cup {InvertEventType(k) : k \in Kinds}

\* the first index of the schedule holding an entry (step, kind); 0 if none
firstEntry(schedule, step, kind) ==
    IF \E k \in 1..Len(schedule) : schedule[k] = [step |-> step, kind |-> kind]
    THEN CHOOSE k \in 1..Len(schedule) :
            /\ schedule[k] = [step |-> step, kind |-> kind]
            /\ \A m \in 1..(k - 1) : schedule[m] # [step |-> step, kind |-> kind]
    ELSE 0

\* the labels detectEvents returns for the tick: `next` and the state assigned to s
\* differ by the phase only, which no detectEvents reads
detectedLabels ==
    [k \in 1..Len(detectEvents(variant, s, s', cfg)) |->
        detectEvents(variant, s, s', cfg)[k].eventType]

\* C21: the event log is ordered by step, non-decreasing; within a tick the marker
\* events of the schedule (in the order of the schedule list) or of the legacy
\* inversion come before the events the variant detected, which keep the order
\* detectEvents returned them in.
C21_EventOrder ==
    [][isTick
       => /\ \A j \in 1..(Len(events') - 1) : events'[j].step <= events'[j + 1].step
          /\ \A j \in tickEvents : events'[j].step = i + 1
          /\ \A j, m \in tickEvents :
                (j < m /\ isMarker(events'[m])) => isMarker(events'[j])
          /\ \A j, m \in tickEvents :
                (j < m /\ isMarker(events'[m]) /\ "inversionSchedule" \in DOMAIN cfg)
                => firstEntry(cfg.inversionSchedule, i + 1, events'[j].inversionKind)
                   < firstEntry(cfg.inversionSchedule, i + 1, events'[m].inversionKind)
          /\ Cardinality(detectedNow) = Len(detectedLabels)
          /\ \A j \in detectedNow :
                events'[j].eventType = detectedLabels[j - (Len(events') - Len(detectedLabels))]]_vars

\* a tick past the first that logged two markers and then a detected event
C21_Witness ==
    /\ pc = "loop"
    /\ i > 1
    /\ \E j \in 1..(Len(events) - 2) :
          /\ events[j].step = i /\ events[j + 2].step = i
          /\ isMarker(events[j]) /\ isMarker(events[j + 1])
          /\ ~isMarker(events[j + 2])
    /\ \E j \in 1..Len(events) : events[j].step < i

\* entry k of the schedule comes after another entry of its kind that the run
\* reaches (next.step starts at 1): one at an earlier step or, for equal steps,
\* earlier in the list
laterOccurrence(schedule, k) ==
    \E m \in 1..Len(schedule) :
        /\ schedule[m].kind = schedule[k].kind
        /\ schedule[m].step >= 1
        /\ \/ schedule[m].step < schedule[k].step
           \/ schedule[m].step = schedule[k].step /\ m < k

\* the schedule without the later occurrences
RECURSIVE firstOccurrences(_, _)
firstOccurrences(schedule, k) ==
    IF k > Len(schedule) THEN <<>>
    ELSE (IF laterOccurrence(schedule, k) THEN <<>> ELSE <<schedule[k]>>)
         \o firstOccurrences(schedule, k + 1)

\* the tick of the same run, its schedule cut down to the first occurrences
tickOfFirstOccurrences ==
    loopBody(variant,
             Spread(cfg, [inversionSchedule |-> firstOccurrences(cfg.inversionSchedule, 1)]),
             s, applied, inversionMask, didInvert, events)

\* C22: of several schedule entries of one kind exactly the first occurrence fires
\* (the one whose step the run reaches first, an entry at step 0 never being
\* reached; for equal steps the one earlier in the list); a later entry of the
\* kind changes no state field and logs no event: every tick
\* is the tick of the run whose schedule holds the first occurrences only.
C22_FirstOccurrenceWins ==
    [][(isTick /\ "inversionSchedule" \in DOMAIN cfg)
       => /\ s' = tickOfFirstOccurrences.s
          /\ events' = tickOfFirstOccurrences.events
          /\ recorded = tickOfFirstOccurrences.pushed
          /\ inversionMask' = tickOfFirstOccurrences.inversionMask
          /\ applied' = tickOfFirstOccurrences.applied
          /\ \A k \in firedNow :
                \A m \in 1..Len(cfg.inversionSchedule) :
                    (cfg.inversionSchedule[m].kind = k /\ cfg.inversionSchedule[m].step >= 1)
                    => i + 1 <= cfg.inversionSchedule[m].step]_vars

\* a run past the later of two GEOM entries at different steps: GEOM fired at the
\* earlier one only
C22_Witness ==
    /\ pc = "loop"
    /\ "inversionSchedule" \in DOMAIN cfg
    /\ Len(cfg.inversionSchedule) = 2
    /\ cfg.inversionSchedule[1].kind = "GEOM" /\ cfg.inversionSchedule[2].kind = "GEOM"
    /\ cfg.inversionSchedule[2].step < cfg.inversionSchedule[1].step
    /\ i = cfg.inversionSchedule[1].step
    /\ \A j \in eventsOfType(events, "INVERT_GEOM") :
          events[j].step = cfg.inversionSchedule[2].step
    /\ eventsOfType(events, "INVERT_GEOM") # {}

\* a tryInsert has just been called (every call is recorded in offered)
isTryInsert == pc = "store" /\ Len(offered') = Len(offered) + 1

\* the entry passed to that call
inserted == offered'[Len(offered')]

\* the call replaced a stored entry
isReplacing == isTryInsert /\ Len(items') = Len(items) /\ items' # items

\* the index the call wrote to
replacedIndex == CHOOSE j \in 1..Len(items) : items'[j] # items[j]

\* tryInsert of the implementation under test
tryInsertOf(its, k, e) ==
    CASE impl = "stress.TopKStore" -> TopKStore_tryInsert(its, k, e)
      [] impl = "autorunner.TopKAnomalyStore" -> TopKAnomalyStore_tryInsert(its, k, e, {})
      [] OTHER -> FastTopKStore_tryInsert(its, k, e)

\* what the caller gets back when the same entry is appended to an empty store,
\* and when it is discarded by a full store that holds its equal
appendReturn(e) == tryInsertOf(<<>>, 1, e).ret

discardReturn(e) == tryInsertOf(<<e>>, 1, e).ret

\* C23: a tryInsert that replaces an entry reports the eviction to its caller, a
\* tryInsert that appends or discards reports none: the value returned by a
\* replacing call is told apart from the value returned when nothing is evicted.
C23_EvictionReported ==
    [][isReplacing
       => /\ ret' # appendReturn(inserted)
          /\ ret' # discardReturn(inserted)]_vars

\* the entries of a file that carry a score, with their multiplicity
scoredIn(file, e) == Cardinality({j \in 1..Len(file.entries) : file.entries[j] = e})

\* C24: the load of a store never fails: an entry without a numeric score is dropped
\* on its own, unreadable data gives an empty store, and what is loaded is at most
\* K entries, each with a numeric score and each taken from the file.
C24_LoadNeverFails ==
    pc \in {"loaded", "threw"}
    => /\ pc = "loaded"
       /\ Len(items) <= K
       /\ \A j \in 1..Len(items) : isScored(items[j])
       /\ \A j \in 1..Len(items) : scoredIn(args, items[j]) > 0
       /\ ~args.parses => items = <<>>
       /\ Len(SelectSeq(args.entries, isScored)) <= K
          => \A j \in 1..Len(args.entries) :
                isScored(args.entries[j]) => \E m \in 1..Len(items) : items[m] = args.entries[j]

\* C26: clamp mode on an axis of bound L: a move that ends in [0, L] is taken as it
\* is and keeps the velocity, landing on a bound included; a move that ends below 0
\* stops at 0 and one that ends above L stops at L, the velocity negated.
C26_ClampReflect ==
    pc = "done"
    => /\ (0 <= args.pos + args.vel /\ args.pos + args.vel <= args.hi)
          => ret = [p |-> args.pos + args.vel, v |-> args.vel]
       /\ args.pos + args.vel < 0 => ret = [p |-> 0, v |-> -args.vel]
       /\ args.pos + args.vel > args.hi => ret = [p |-> args.hi, v |-> -args.vel]

\* a move that lands exactly on the upper bound, and keeps its velocity
C26_Witness ==
    /\ pc = "done"
    /\ args.vel > 0
    /\ args.pos + args.vel = args.hi
    /\ ret = [p |-> args.hi, v |-> args.vel]

\* C25: the phase a corner event (corner.off or corner.diag) produces lies in
\* [0, mod), also when the phase before the event is negative.
C25_CornerPhaseInRange ==
    \A j \in 1..Len(events) :
        events[j].eventType \in {"corner.off", "corner.diag"}
        => 0 <= events[j].phaseAfter /\ events[j].phaseAfter < cfg.mod

\* the instrumentation events of the square variant
isInstrumentation(ev) ==
    ev.eventType \in {"edge.hit.x", "edge.hit.y", "near.corner.enter", "near.corner.exit"}

isNotInstrumentation(ev) == ~isInstrumentation(ev)

\* the tick of the run of the same config with emitEdgeEvents and
\* emitNearCornerEvents off, whose log is the log without instrumentation events
tickWithoutInstrumentation ==
    loopBody(variant,
             Spread(cfg, [emitEdgeEvents |-> FALSE, emitNearCornerEvents |-> FALSE]),
             s, applied, inversionMask, didInvert, SelectSeq(events, isNotInstrumentation))

\* C27: an instrumentation event (edge.hit.x, edge.hit.y, near.corner.enter,
\* near.corner.exit) has phaseAfter = phaseBefore, and the run with the
\* instrumentation on has the trajectory and the other events (the corner events
\* with their phases among them) of the run with it off.
C27_InstrumentationIsInert ==
    [][isTick
       => /\ \A j \in tickEvents :
                isInstrumentation(events'[j])
                => events'[j].phaseAfter = events'[j].phaseBefore
          /\ s' = tickWithoutInstrumentation.s
          /\ recorded = tickWithoutInstrumentation.pushed
          /\ SelectSeq(events', isNotInstrumentation) = tickWithoutInstrumentation.events]_vars

\* a tick that logged an edge hit, a near-corner entry and then a corner event that
\* changed the phase
C27_Witness ==
    /\ pc = "loop"
    /\ \E j \in 1..(Len(events) - 2) :
          /\ events[j].eventType = "edge.hit.y"
          /\ events[j + 1].eventType = "near.corner.enter"
          /\ startsWithCorner(events[j + 2].eventType)
          /\ events[j + 2].step = events[j].step
          /\ events[j + 2].phaseAfter # events[j + 2].phaseBefore

\* the tick logs an event of the type
loggedNow(eventType) == \E j \in tickEvents : events'[j].eventType = eventType

\* C28: with emitEdgeEvents on, in the variants that detect with the square
\* variant's detectEvents, edge.hit.x (edge.hit.y) is logged at a tick exactly when
\* the position recorded for the tick before is not on an X-edge (Y-edge) and the
\* position recorded for the tick is; it is logged once.
C28_EdgeHitOnFirstTouch ==
    [][(isTick /\ variant \in CornerVariants /\ Get(cfg, "emitEdgeEvents", FALSE))
       => /\ loggedNow("edge.hit.x")
             <=> (/\ trajectory[Len(trajectory)].x \notin {0, cfg.sizeX}
                  /\ recorded.x \in {0, cfg.sizeX})
          /\ loggedNow("edge.hit.y")
             <=> (/\ trajectory[Len(trajectory)].y \notin {0, cfg.sizeY}
                  /\ recorded.y \in {0, cfg.sizeY})
          /\ Cardinality({j \in tickEvents : events'[j].eventType = "edge.hit.x"}) <= 1
          /\ Cardinality({j \in tickEvents : events'[j].eventType = "edge.hit.y"}) <= 1]_vars

\* two ticks in a row on an X-edge, the hit logged at the first one only
C28_Witness ==
    /\ pc = "loop"
    /\ variant \in CornerVariants
    /\ Get(cfg, "emitEdgeEvents", FALSE)
    /\ \E n \in 2..(Len(trajectory) - 1) :
          /\ trajectory[n - 1].x \notin {0, cfg.sizeX}
          /\ trajectory[n].x \in {0, cfg.sizeX}
          /\ trajectory[n + 1].x \in {0, cfg.sizeX}
          /\ \E j \in eventsOfType(events, "edge.hit.x") : events[j].step = trajectory[n].step
          /\ \A j \in eventsOfType(events, "edge.hit.x") : events[j].step # trajectory[n + 1].step

\* the smallest index holding the lowest score
firstMinimum(its) ==
    CHOOSE j \in 1..Len(its) :
        /\ scoreOf(its[j]) = minScore(its)
        /\ \A m \in 1..(j - 1) : scoreOf(its[m]) > minScore(its)

\* C29: a tryInsert that replaces writes the new entry at the smallest index among
\* the entries sharing the lowest score, and leaves every other entry at its index.
C29_FirstMinimumReplaced ==
    [][isReplacing
       => /\ replacedIndex = firstMinimum(items)
          /\ items' = [items EXCEPT ![firstMinimum(items)] = inserted]]_vars

\* a store of two entries of equal score after a higher one was offered: the new
\* entry is at the first index, the second entry where it was
C29_Witness ==
    /\ pc = "store"
    /\ K = 2
    /\ Len(offered) = 3
    /\ isScored(offered[1]) /\ isScored(offered[2]) /\ isScored(offered[3])
    /\ scoreOf(offered[1]) = scoreOf(offered[2])
    /\ scoreOf(offered[3]) > scoreOf(offered[1])
    /\ items = <<offered[3], offered[2]>>

\* the move of one axis at a tick taken from a state of step n: clamp before the
\* inversion step, true reflect from it on
axisMove(n, pos, vel, hi) ==
    IF n < computeInversionStepFromStart(cfg)
    THEN clampReflect(pos, vel, 0, hi)
    ELSE reflectWithRemainder(pos, vel, 0, hi)

\* C30: a SquareInversionReflect run of more than one step logs exactly one
\* inversion.swap event, at step computeInversionStepFromStart(cfg), with
\* phaseAfter = phaseBefore; a tick taken from a state whose step is below that
\* value moves by clamp stepping, a later one by true-reflect stepping.
C30_SwapOnce ==
    [][(pc = "loop" /\ variant = "SquareInversionReflect" /\ cfg.steps > 1)
       => /\ isTick
             => /\ loggedNow("inversion.swap") <=> (i + 1 = computeInversionStepFromStart(cfg))
                /\ \A j \in tickEvents :
                      events'[j].eventType = "inversion.swap"
                      => events'[j].phaseAfter = events'[j].phaseBefore
                /\ proposed.x = axisMove(s.step, s.x, s.vx, cfg.sizeX).p
                /\ proposed.vx = axisMove(s.step, s.x, s.vx, cfg.sizeX).v
                /\ proposed.y = axisMove(s.step, s.y, s.vy, cfg.sizeY).p
                /\ proposed.vy = axisMove(s.step, s.y, s.vy, cfg.sizeY).v
                /\ (tickEvents \ detectedNow = {})
                   => /\ recorded.x = proposed.x /\ recorded.vx = proposed.vx
                      /\ recorded.y = proposed.y /\ recorded.vy = proposed.vy
          /\ pc' = "returned"
             => /\ Cardinality(eventsOfType(ret'.events, "inversion.swap")) = 1
                /\ \A j \in eventsOfType(ret'.events, "inversion.swap") :
                      ret'.events[j].step = computeInversionStepFromStart(cfg)]_vars

\* a returned run that moved by clamp stepping up to the swap, logged at a tick after
\* the first, and then left the wall x = 0 by true reflection, to arrive at
\* x = sizeX where clamp stepping stays at 0
C30_Witness ==
    /\ pc = "returned"
    /\ variant = "SquareInversionReflect"
    /\ cfg.steps = MaxSteps
    /\ computeInversionStepFromStart(cfg) = MaxSteps - 1
    /\ Cardinality(eventsOfType(ret.events, "inversion.swap")) = 1
    /\ ret.trajectory[MaxSteps].x = 0
    /\ ret.trajectory[MaxSteps].vx < -1
    /\ ret.trajectory[MaxSteps + 1].x = cfg.sizeX
    /\ "inversionSchedule" \notin DOMAIN cfg /\ "inversionStep" \notin DOMAIN cfg

\* the run has no inversion: neither a schedule nor a legacy inversionStep
noInversion == "inversionSchedule" \notin DOMAIN cfg /\ "inversionStep" \notin DOMAIN cfg

\* the move from the trajectory entry would cross a wall of the axis
crossesX(e) == e.x + e.vx < 0 \/ e.x + e.vx > cfg.sizeX

crossesY(e) == e.y + e.vy < 0 \/ e.y + e.vy > cfg.sizeY

\* C31: in the sticky variant a move that would cross a wall puts the particle on
\* that wall with a sticky.enter event, the next tick logs sticky.exit, and after
\* that release the velocity on the axis that hit is the negation of its value
\* before the hit, on a valid grid and without inversions. (trajectory[t] is the
\* entry of step t - 1.)
C31_StickyReflects ==
    (variant = "SquareStickyReflect" /\ noInversion /\ assertValidConfig(cfg))
    => \A j \in eventsOfType(events, "sticky.enter") :
          /\ crossesX(trajectory[events[j].step])
             => trajectory[events[j].step + 1].x \in {0, cfg.sizeX}
          /\ crossesY(trajectory[events[j].step])
             => trajectory[events[j].step + 1].y \in {0, cfg.sizeY}
          /\ Len(trajectory) >= events[j].step + 2
             => /\ \E m \in eventsOfType(events, "sticky.exit") :
                      events[m].step = events[j].step + 1
                /\ crossesX(trajectory[events[j].step])
                   => trajectory[events[j].step + 2].vx = -trajectory[events[j].step].vx
                /\ crossesY(trajectory[events[j].step])
                   => trajectory[events[j].step + 2].vy = -trajectory[events[j].step].vy

\* the indices of the mirror.cross events the tick logs
crossedNow == {j \in tickEvents : events'[j].eventType = "mirror.cross"}

\* C32: in the mirror variant, on a valid grid and without inversions, a tick logs
\* exactly one mirror.cross event when stepOnce applies the mirror reflection (the
\* clamp-reflect proposal reaches or crosses mirrorX from one side) and none
\* otherwise; the event negates the phase without reducing it.
C32_MirrorCrossLogged ==
    [][(isTick /\ variant = "MirrorInversion" /\ noInversion /\ assertValidConfig(cfg))
       => /\ Cardinality(crossedNow) =
                IF mirrorCrossing(s, SquareClampReflect_stepOnce(s, cfg), cfg) THEN 1 ELSE 0
          /\ \A j \in crossedNow : events'[j].phaseAfter = -events'[j].phaseBefore]_vars

\* worker w has marked a job 'processing' and not finished with it
inTryBlock(w) == args[w].pc \in {"try", "submit", "catch"}

\* C33: with several workers in the job loop, marking a job 'processing' locks
\* it: no two workers are at once past that mark on the same job, and no job is
\* marked 'completed' more than once.
C33_ProcessingLocks ==
    pc = "jobs"
    => /\ \A w1 \in Workers, w2 \in Workers :
             (w1 # w2 /\ inTryBlock(w1) /\ inTryBlock(w2)) => args[w1].job # args[w2].job
       /\ \A j \in 1..Len(items) : items[j].completed <= 1

\* the steps of the entries of kind k in the schedule of the run
stepsOfKind(k) ==
    {cfg.inversionSchedule[m].step :
        m \in {n \in 1..Len(cfg.inversionSchedule) : cfg.inversionSchedule[n].kind = k}}

\* C34: the trajectory entry at index n is the entry of step n (trajectory[n + 1]
\* here), every logged event has a step in 1..steps, and a schedule entry or an
\* inversionStep whose step is 0 or above steps never fires: INVERT_<kind> is
\* logged only at a step of an entry of the kind, INVERT only at inversionStep.
C34_StepsOfTicks ==
    /\ \A n \in 1..Len(trajectory) : trajectory[n].step = n - 1
    /\ Len(trajectory) <= cfg.steps + 1
    /\ \A j \in 1..Len(events) :
          /\ 1 <= events[j].step /\ events[j].step <= cfg.steps
          /\ events[j].eventType = "INVERT" => events[j].step = cfg.inversionStep
          /\ \A k \in Kinds :
                events[j].eventType = InvertEventType(k) => events[j].step \in stepsOfKind(k)

\* a returned run whose schedule opens with an entry at step 0 of a kind that has
\* no other entry: the kind never fired, and the last tick logged an event
C34_Witness ==
    /\ pc = "returned"
    /\ cfg.steps = MaxSteps
    /\ "inversionSchedule" \in DOMAIN cfg
    /\ Len(cfg.inversionSchedule) = 1
    /\ cfg.inversionSchedule[1].step = 0
    /\ eventsOfType(ret.events, InvertEventType(cfg.inversionSchedule[1].kind)) = {}
    /\ \E j \in 1..Len(ret.events) : ret.events[j].step = MaxSteps
    /\ ret.trajectory[MaxSteps + 1].step = MaxSteps

\* C35: with the clamp-reflect variant, a valid grid and a start inside it, every
\* trajectory entry lies in [0, sizeX] x [0, sizeY], whatever the schedule or the
\* legacy inversionStep.
C35_StaysInGrid ==
    (/\ variant = "SquareClampReflect"
     /\ assertValidConfig(cfg)
     /\ 0 <= cfg.x0 /\ cfg.x0 <= cfg.sizeX /\ 0 <= cfg.y0 /\ cfg.y0 <= cfg.sizeY)
    => \A n \in 1..Len(trajectory) :
          /\ 0 <= trajectory[n].x /\ trajectory[n].x <= cfg.sizeX
          /\ 0 <= trajectory[n].y /\ trajectory[n].y <= cfg.sizeY

\* the phase the log ends with: the last event's phaseAfter, phase0 without events
lastPhase(evs) == IF evs = <<>> THEN cfg.phase0 ELSE evs[Len(evs)].phaseAfter

\* C36: the log is one phase chain from phase0: the first event's phaseBefore is
\* phase0, each later event's phaseBefore is the phaseAfter of the event before it,
\* the last trajectory entry has the phase the log ends with, and the phase of a
\* trajectory entry whose tick logged no event is the phase of the entry before it.
C36_PhaseChain ==
    pc \in {"loop", "returned"}
    => /\ events # <<>> => events[1].phaseBefore = cfg.phase0
       /\ \A j \in 2..Len(events) : events[j].phaseBefore = events[j - 1].phaseAfter
       /\ trajectory[Len(trajectory)].phase = lastPhase(events)
       /\ s.phase = lastPhase(events)
       /\ \A n \in 2..Len(trajectory) :
             (\A j \in 1..Len(events) : events[j].step # trajectory[n].step)
             => trajectory[n].phase = trajectory[n - 1].phase

\* a run whose phase was negated by an OBSERVER entry and then changed by a corner
\* event at a later tick, with a tick without events after it
C36_Witness ==
    /\ pc = "loop"
    /\ \E j \in 1..(Len(events) - 1) :
          /\ events[j].eventType = "INVERT_OBSERVER"
          /\ events[j].phaseAfter # events[j].phaseBefore
          /\ startsWithCorner(events[j + 1].eventType)
          /\ events[j + 1].step > events[j].step
          /\ events[j + 1].phaseAfter # events[j + 1].phaseBefore
    /\ \A j \in 1..Len(events) : events[j].step # trajectory[Len(trajectory)].step

\* the position and velocity a record carries
motionOf(r) == [x |-> r.x, y |-> r.y, vx |-> r.vx, vy |-> r.vy]

\* event j is a schedule marker followed in the log by another marker of its tick
hasLaterMarker(evs, j) ==
    /\ j < Len(evs)
    /\ evs[j].eventType \in {InvertEventType(k) : k \in Kinds}
    /\ evs[j + 1].eventType \in {InvertEventType(k) : k \in Kinds}
    /\ evs[j + 1].step = evs[j].step

\* C37 as stated: every logged event carries the x, y, vx, vy of the trajectory
\* entry of its step, the INVERT_<kind> events of a tick where several entries
\* fire included.
C37_EventMotion_Original ==
    \A j \in 1..Len(events) :
        motionOf(events[j]) = motionOf(trajectory[events[j].step + 1])

\* C37: every logged event carries the x, y, vx, vy of the trajectory entry of its
\* step, except an INVERT_<kind> event followed by another INVERT_<kind> event of
\* the same tick: that one carries the position and velocity right after its own
\* effect, from which the effect of the next entry gives what the next event carries.
C37_EventMotion ==
    \A j \in 1..Len(events) :
        IF hasLaterMarker(events, j)
        THEN motionOf(events[j + 1]) =
                motionOf(applyKind(Spread(events[j], [phase |-> events[j].phaseAfter]),
                                   events[j + 1].inversionKind, cfg))
        ELSE motionOf(events[j]) = motionOf(trajectory[events[j].step + 1])

\* a tick where GEOM and then SPHERE fired: the INVERT_GEOM event is at the start
\* position, the trajectory entry is not
C37_Witness ==
    /\ pc = "loop"
    /\ \E j \in 1..(Len(events) - 1) :
          /\ events[j].eventType = "INVERT_GEOM"
          /\ events[j + 1].eventType = "INVERT_SPHERE"
          /\ events[j + 1].step = events[j].step
          /\ events[j].x = cfg.x0
          /\ trajectory[events[j].step + 1].x # cfg.x0
          /\ motionOf(events[j + 1]) = motionOf(trajectory[events[j].step + 1])

\* C38: in the autorunner a run directory is deleted only for a run that no
\* category store retains: every entry held by a store refers to a run directory
\* that has not been deleted.
C38_RetainedRunsKept ==
    pc = "autorunner"
    => \A type \in DOMAIN items :
          \A j \in 1..Len(items[type]) : items[type][j].runDir \notin deleted

\* C39: for the clamp-reflect, inversion-reflect and mirror variants on a valid
\* grid, with any schedule or legacy inversionStep, the speed on each axis is
\* constant: |vx| = |vx0| and |vy| = |vy0| at every trajectory entry.
C39_SpeedConstant ==
    (variant \in CornerVariants /\ assertValidConfig(cfg))
    => \A n \in 1..Len(trajectory) :
          /\ Abs(trajectory[n].vx) = Abs(cfg.vx0)
          /\ Abs(trajectory[n].vy) = Abs(cfg.vy0)

\* a returned mirror run whose velocity on x changed sign, after a GEOM entry fired
C39_Witness ==
    /\ pc = "returned"
    /\ variant = "MirrorInversion"
    /\ cfg.steps = MaxSteps
    /\ eventsOfType(ret.events, "INVERT_GEOM") # {}
    /\ \E n \in 1..Len(ret.trajectory) : ret.trajectory[n].vx = -cfg.vx0
    /\ \E n \in 2..Len(ret.trajectory) : ret.trajectory[n].vy = cfg.vy0

=============================================================================
